---- MODULE Spec2Model ----
(***************************************************************************)
(* A model of the session and installation core of rave-wasm:              *)
(*   - PortManager                 (src/src/utils/port-manager.js)         *)
(*   - RSessionManager             (src/src/plugins/r-plugin/              *)
(*                                  r-session-manager.js)                  *)
(*   - ShellSessionManager         (src/src/plugins/r-plugin/              *)
(*                                  shell-session-manager.js)              *)
(*   - RAVEInstaller.topologicalSort (src/src/plugins/plugin-manager.js)   *)
(*   - RAVEInstaller.executeInstallation (the same file)                   *)
(* Each component has its own specification over its own variables; the    *)
(* variables of the other components stay at their initial value.          *)
(***************************************************************************)
EXTENDS Integers, Sequences, FiniteSets, TLC

VARIABLES
    \* ---- RAVEInstaller.topologicalSort ----
    steps,          \* checklist.steps: the declared step list
    sortPc,         \* "loading" while the plan is read, "sorted" after the sort
    sortResult,     \* what topologicalSort returned
    \* ---- PortManager ----
    usedPorts,      \* this.usedPorts (a Set)
    availablePorts, \* this.availablePorts (an array used as a queue)
    allocCalls,     \* the allocatePort / createSession calls, each idle or
                    \* suspended at `await this.isPortAvailable(port)`
    held,           \* per port: allocations returned and not released since
    overlap,        \* some call began while an allocatePort was suspended
    reuseDue,       \* the port released into an empty free list, until the
                    \* next allocatePort call begins (0: none)
    lastReleased,   \* the in-use port released last, until the next
                    \* allocatePort call begins (0: none)
    portEv,         \* the last PortManager / createSession event
    \* ---- RSessionManager ----
    sessions,       \* this.sessions: sessionId -> session record
    \* ---- ShellSessionManager (one session id) ----
    shSession,      \* this.sessions.get(id): the registered session object
    shCmds,         \* the execute calls that got past the guards: promise,
                    \* process and timer of each
    shCallback,     \* this.outputCallbacks.has(id)
    shEv,           \* the last ShellSessionManager event that acted or was refused
    \* ---- RSessionManager.execute (one session) ----
    rxProc,         \* the R process: "none" | "running" | "killed" | "exited"
    rxOutput,       \* session.output
    rxStderr,       \* session.stderr
    rxStream,       \* written to stdout by the process, not yet delivered
    rxData,         \* 'data' events on stdout so far
    rxCalls,        \* the execute calls that got past the status check
    rxListeners,    \* the outputListeners attached to stdout, in order
    rxNow,          \* what Date.now() returned last
    rxEv,           \* the last RSessionManager.execute event
    \* ---- RAVEInstaller.executeInstallation ----
    checklist,      \* the steps of the checklist file loadChecklist reads
    checklistFile,  \* the checklist file as loadChecklist finds it
    aborted,        \* this._aborted
    proceedSignal,  \* this._proceedSignal: the run whose resolver it holds
                    \* (0: null)
    thisSteps,      \* this.steps: the run whose sorted step objects it
                    \* holds (0: the constructor's empty array)
    stepStatus,     \* status of the step objects each run's sort produced
    runs,           \* the executeInstallation calls: position, locals,
                    \* progress events emitted
    instEv,         \* the last installer event
    \* ---- prerequisite checker (RAVEInstaller.checkPrerequisites) ----
    cacheStore,     \* the cache manager's JSON records, by cache key
    osVersion,      \* this.osVersion: os.release() when the checker was built
    prNow,          \* what Date.now() returns
    prCalls,        \* the checkPrerequisites calls: idle or probing
    prEv,           \* the last checkPrerequisites event
    \* ---- RSessionManager: process exit and crash handling (one id) ----
    lcProcs,        \* the R processes createSession spawned
    lcDialogs,      \* the crash dialogs on screen: the process whose exit
                    \* raised each
    lcEv            \* the last event of this part

sortVars == <<steps, sortPc, sortResult>>

portVars == <<usedPorts, availablePorts, allocCalls, held, overlap, reuseDue,
              lastReleased, portEv>>

rsessVars == <<sessions>>

shellVars == <<shSession, shCmds, shCallback, shEv>>

rexecVars == <<rxProc, rxOutput, rxStderr, rxStream, rxData, rxCalls, rxListeners,
               rxNow, rxEv>>

instVars == <<checklist, checklistFile, aborted, proceedSignal, thisSteps, stepStatus, runs,
              instEv>>

prereqVars == <<cacheStore, osVersion, prNow, prCalls, prEv>>

crashVars == <<lcProcs, lcDialogs, lcEv>>

vars == <<steps, sortPc, sortResult, usedPorts, availablePorts, allocCalls, held,
          overlap, reuseDue, lastReleased, portEv, sessions,
          shSession, shCmds, shCallback, shEv,
          rxProc, rxOutput, rxStderr, rxStream, rxData, rxCalls, rxListeners,
          rxNow, rxEv,
          checklist, checklistFile, aborted, proceedSignal, thisSteps, stepStatus,
          runs, instEv,
          cacheStore, osVersion, prNow, prCalls, prEv,
          lcProcs, lcDialogs, lcEv>>

\* what each component's actions leave alone
outsideSort == <<portVars, rsessVars, shellVars, rexecVars, instVars, prereqVars, crashVars>>
outsidePort == <<sortVars, shellVars, rexecVars, instVars, prereqVars, crashVars>>
outsideRSess == <<sortVars, shellVars, rexecVars, instVars, prereqVars, crashVars, held, overlap, reuseDue,
                  lastReleased>>
outsideShell == <<sortVars, portVars, rsessVars, rexecVars, instVars, prereqVars, crashVars>>
outsideRExec == <<sortVars, shellVars, instVars, prereqVars, crashVars, allocCalls, held, overlap, reuseDue,
                  lastReleased, portEv>>

(***************************************************************************)
(* Generic helpers                                                         *)
(***************************************************************************)
Range(s) == {s[i] : i \in DOMAIN s}

RECURSIVE SumLens(_, _)
SumLens(ss, i) == IF i > Len(ss) THEN 0 ELSE Len(ss[i].needs) + SumLens(ss, i + 1)


(***************************************************************************)
(* PortManager                                                             *)
(***************************************************************************)
StartPort == 8100   \* constructor default startPort
EndPort == 8101     \* endPort: the range is cut to a few ports

Ports == StartPort..EndPort

MaxCalls == 2       \* allocatePort / createSession calls that can be in flight

Calls == 1..MaxCalls

MinOf(S) == CHOOSE x \in S : \A y \in S : x <= y

\* the loop's test `!this.usedPorts.has(port)` left out: every port is probed
probeCandidateAny(used, port) == TRUE

\* the loop's test `!this.usedPorts.has(port)`
probeCandidate(used, port) == port \notin used

\* this.availablePorts[0]: the port is read but left in the free list
takeFreeKeep(avail) == [port |-> Head(avail), rest |-> avail]

\* this.availablePorts.pop(): the port released last
takeFreeLast(avail) ==
    [port |-> avail[Len(avail)], rest |-> SubSeq(avail, 1, Len(avail) - 1)]

\* this.availablePorts.shift(): the port released first
takeFree(avail) == [port |-> Head(avail), rest |-> Tail(avail)]

\* The loop `for (port = from; port <= endPort; port++)` run up to its next
\* `await this.isPortAvailable(port)`, or to the throw after it.
\* kind: "await" (suspended probing .port), "throw", "return" (.port allocated)
probeFrom(used, avail, from) ==
    LET cand == {p \in from..EndPort : probeCandidate(used, p)} IN
    IF cand = {}
    THEN [kind |-> "throw", port |-> 0, used |-> used, avail |-> avail]
    ELSE [kind |-> "await", port |-> MinOf(cand), used |-> used, avail |-> avail]

\* allocatePort() from its call to its first suspension, return or throw
allocBegin(used, avail) ==
    IF Len(avail) > 0
    THEN LET t == takeFree(avail) IN
         [kind |-> "return", port |-> t.port,
          used |-> used \cup {t.port}, avail |-> t.rest]
    ELSE probeFrom(used, avail, StartPort)

\* allocatePort() resumed with the result of isPortAvailable(port)
allocResume(used, avail, port, available) ==
    IF available
    THEN [kind |-> "return", port |-> port,
          used |-> used \cup {port}, avail |-> avail]
    ELSE probeFrom(used, avail, port + 1)

\* releasePort(port)
releasePort(used, avail, port) ==
    IF port \in used
    THEN [used |-> used \ {port}, avail |-> Append(avail, port)]
    ELSE [used |-> used, avail |-> avail]

IdleCall == [pc |-> "idle", port |-> 0, sid |-> 0]

NoPortEv == [op |-> "none", sid |-> 0, arg |-> 0, kind |-> "none",
             port |-> 0, error |-> "none", due |-> 0, last |-> 0]

PortInit ==
    /\ usedPorts = {}
    /\ availablePorts = <<>>
    /\ allocCalls = [c \in Calls |-> IdleCall]
    /\ held = [p \in Ports |-> 0]
    /\ overlap = FALSE
    /\ reuseDue = 0
    /\ lastReleased = 0
    /\ portEv = NoPortEv

Suspended == {c \in Calls : allocCalls[c].pc = "probing"}

\* A new call takes the first free slot (the slots only hold the calls that
\* are suspended; which slot a call takes is of no consequence).
FreeSlot(c) ==
    /\ allocCalls[c].pc = "idle"
    /\ \A d \in Calls : d < c => allocCalls[d].pc # "idle"

\* what a finished step of an allocatePort call does to the caller's side
AllocOutcome(c, r) ==
    /\ usedPorts' = r.used
    /\ availablePorts' = r.avail
    /\ allocCalls' = [allocCalls EXCEPT ![c] =
            IF r.kind = "await"
            THEN [pc |-> "probing", port |-> r.port, sid |-> 0]
            ELSE IdleCall]
    /\ held' = IF r.kind = "return" THEN [held EXCEPT ![r.port] = @ + 1] ELSE held

\* a caller calls portManager.allocatePort()
AllocatePort(c) ==
    /\ FreeSlot(c)
    /\ LET r == allocBegin(usedPorts, availablePorts) IN
       /\ AllocOutcome(c, r)
       /\ portEv' = [NoPortEv EXCEPT !.op = "allocatePort",
                        !.kind = r.kind, !.port = r.port,
                        !.due = reuseDue, !.last = lastReleased]
    /\ overlap' = (overlap \/ Suspended # {})
    /\ reuseDue' = 0
    /\ lastReleased' = 0
    /\ UNCHANGED <<sessions, outsidePort>>

\* the probe of a suspended allocatePort call resolves
AllocatePortResume(c) ==
    /\ allocCalls[c].pc = "probing"
    /\ allocCalls[c].sid = 0
    /\ \E available \in BOOLEAN :
         LET r == allocResume(usedPorts, availablePorts, allocCalls[c].port, available) IN
         /\ AllocOutcome(c, r)
         /\ portEv' = [NoPortEv EXCEPT !.op = "allocatePort-resumed",
                          !.kind = r.kind, !.port = r.port]
    /\ UNCHANGED <<overlap, reuseDue, lastReleased, sessions, outsidePort>>

\* a caller calls portManager.releasePort(p)
ReleasePort(p) ==
    /\ LET r == releasePort(usedPorts, availablePorts, p) IN
       /\ usedPorts' = r.used
       /\ availablePorts' = r.avail
    /\ held' = IF p \in usedPorts THEN [held EXCEPT ![p] = 0] ELSE held
    /\ reuseDue' = IF p \in usedPorts /\ availablePorts = <<>> THEN p ELSE reuseDue
    /\ lastReleased' = IF p \in usedPorts THEN p ELSE lastReleased
    /\ overlap' = (overlap \/ Suspended # {})
    /\ portEv' = [NoPortEv EXCEPT !.op = "releasePort", !.arg = p,
                     !.kind = IF p \in usedPorts THEN "released" ELSE "noop"]
    /\ UNCHANGED <<allocCalls, sessions, outsidePort>>

(***************************************************************************)
(* RSessionManager: createSession, terminateSession                        *)
(***************************************************************************)
NumSessionIds == 3      \* caller-chosen session ids in use
MaxCreates == 1         \* createSession calls that can be in flight

SessionIds == 1..NumSessionIds

\* the slots of allocCalls the createSession calls use
Creates == {c \in Calls : c <= MaxCreates}

\* this.sessions.set(sessionId, session)
sessionsSet(ss, sid, rec) ==
    [x \in DOMAIN ss \cup {sid} |-> IF x = sid THEN rec ELSE ss[x]]

\* a delete that leaves the map as it is
sessionsKeep(ss, sid) == ss

\* this.sessions.delete(sessionId)
sessionsDelete(ss, sid) == [x \in DOMAIN ss \ {sid} |-> ss[x]]

\* the session record createSession builds around the spawned process
newSession(port) == [port |-> port, status |-> "running"]

RSessInit == sessions = [x \in {} |-> newSession(0)]

\* createSession after `await this.portManager.allocatePort()` has settled
\* with r: spawn and register the session, or the catch block
CreateOutcome(c, sid, r, op) ==
    /\ usedPorts' = r.used
    /\ availablePorts' = r.avail
    /\ allocCalls' = [allocCalls EXCEPT ![c] =
            IF r.kind = "await"
            THEN [pc |-> "probing", port |-> r.port, sid |-> sid]
            ELSE IdleCall]
    /\ sessions' = IF r.kind = "return"
                   THEN sessionsSet(sessions, sid, newSession(r.port))
                   ELSE sessions
    /\ portEv' = [NoPortEv EXCEPT
            !.op = op, !.sid = sid, !.arg = 1,
            !.kind = CASE r.kind = "return" -> "success"
                       [] r.kind = "throw" -> "fail"
                       [] OTHER -> "await",
            !.port = IF r.kind = "return" THEN r.port ELSE 0,
            !.error = IF r.kind = "throw" THEN "No available ports" ELSE "none"]

\* createSession(sessionId, rPath): rPathOk says whether an R path is given
\* or detected
CreateSession(c, sid, rPathOk) ==
    /\ FreeSlot(c)
    /\ IF ~rPathOk
       THEN /\ portEv' = [NoPortEv EXCEPT !.op = "createSession",
                             !.sid = sid, !.kind = "fail", !.error = "R not detected"]
            /\ UNCHANGED <<usedPorts, availablePorts, allocCalls, sessions>>
       ELSE IF sid \in DOMAIN sessions
       THEN /\ portEv' = [NoPortEv EXCEPT !.op = "createSession",
                             !.sid = sid, !.arg = 1, !.kind = "fail",
                             !.error = "Session already exists"]
            /\ UNCHANGED <<usedPorts, availablePorts, allocCalls, sessions>>
       ELSE CreateOutcome(c, sid, allocBegin(usedPorts, availablePorts),
                          "createSession")
    /\ UNCHANGED outsideRSess

\* the probe a createSession call is suspended at resolves
CreateSessionResume(c) ==
    /\ allocCalls[c].pc = "probing"
    /\ allocCalls[c].sid # 0
    /\ \E available \in BOOLEAN :
         CreateOutcome(c, allocCalls[c].sid,
                       allocResume(usedPorts, availablePorts, allocCalls[c].port,
                                   available),
                       "createSession-resumed")
    /\ UNCHANGED outsideRSess

\* terminateSession(sessionId)
TerminateSession(sid) ==
    /\ IF sid \notin DOMAIN sessions
       THEN UNCHANGED <<usedPorts, availablePorts, sessions>>
       ELSE LET r == releasePort(usedPorts, availablePorts, sessions[sid].port) IN
            /\ usedPorts' = r.used
            /\ availablePorts' = r.avail
            /\ sessions' = sessionsDelete(sessions, sid)
    /\ portEv' = [NoPortEv EXCEPT !.op = "terminateSession", !.sid = sid,
                     !.kind = IF sid \in DOMAIN sessions THEN "terminated" ELSE "noop"]
    /\ UNCHANGED <<allocCalls, outsideRSess>>

(***************************************************************************)
(* ShellSessionManager                                                     *)
(*                                                                         *)
(* One session id.  The handlers of an execute call hold the session       *)
(* object the call looked up (stdout, stderr, timer) or look the id up     *)
(* again (close, error).  terminateSession leaves the object it discards   *)
(* with process null and no prompt, and execute never reaches that object  *)
(* again: a timer that holds it finds nothing to kill, and chunks appended *)
(* to its buffers are read by nobody.  So only the registered object is    *)
(* kept, and a call records whether the object it holds is still that one. *)
(* shCmds holds the calls that can still act: a call whose promise is      *)
(* settled, whose process has closed and whose timer is no longer pending  *)
(* leaves it.  A buffer is the sequence of the chunks appended to it.      *)
(***************************************************************************)
MaxCmds == 2        \* execute calls alive at a time
MaxChunks == 1      \* chunks the session's buffers take

Cmds == 1..MaxCmds

\* the record createSession builds (process, prompt: the call that owns the
\* process handle / commandPromptResolve, 0 if null)
newShellSession == [status |-> "ready", process |-> 0, output |-> <<>>,
                    stderr |-> <<>>, prompt |-> 0]

\* this.sessions.get(sessionId) is undefined
NoShellSession == [status |-> "absent", process |-> 0, output |-> <<>>,
                   stderr |-> <<>>, prompt |-> 0]

NoResult == [success |-> FALSE, output |-> <<>>, error |-> "none"]

\* mode: "normal" | "manual"; state: "unused" | "pending" | "resolved"
\* held: the session object the call looked up is the registered one
\* proc: "none" | "running" | "killed" | "errored" | "closed"
\* timer: "none" | "armed" | "off"
UnusedCmd == [state |-> "unused", mode |-> "normal", held |-> FALSE,
              proc |-> "none", timer |-> "none"]

\* resolved: the command whose promise the event settled (0: none), result:
\* what it settled with
NoShEv == [op |-> "none", kind |-> "none", cmd |-> 0, resolved |-> 0,
           result |-> NoResult]

ShellInit ==
    /\ shSession = NoShellSession
    /\ shCmds = [k \in Cmds |-> UnusedCmd]
    /\ shCallback = FALSE
    /\ shEv = NoShEv

\* nothing of the call can happen any more
Finished(c) ==
    /\ c.state = "resolved"
    /\ c.proc \in {"none", "closed"}
    /\ c.timer # "armed"

settleCmds(cmds) == [k \in Cmds |-> IF Finished(cmds[k]) THEN UnusedCmd ELSE cmds[k]]

\* resolve(result) of command k's promise: only the first call settles it
resolveCmd(cmds, k, result) ==
    IF k # 0 /\ cmds[k].state = "pending"
    THEN [cmds EXCEPT ![k].state = "resolved"]
    ELSE cmds

\* the event's record of that resolve
resolveEv(ev, cmds, k, result) ==
    IF k # 0 /\ cmds[k].state = "pending"
    THEN [ev EXCEPT !.resolved = k, !.result = result]
    ELSE ev

\* proc.kill() on the process of command k (0: no process)
killProc(cmds, k) ==
    IF k # 0 /\ cmds[k].proc = "running"
    THEN [cmds EXCEPT ![k].proc = "killed"]
    ELSE cmds

\* the guard tests the process handle instead of the status
alreadyRunningByProcess(session) == session.process # 0

\* if (session.status === 'running')
alreadyRunning(session) == session.status = "running"

\* createSession(sessionId, options)
ShCreateSession ==
    /\ IF shSession.status # "absent"
       THEN UNCHANGED <<shSession, shEv>>
       ELSE /\ shSession' = newShellSession
            /\ shEv' = [NoShEv EXCEPT !.op = "createSession", !.kind = "created"]
    /\ UNCHANGED <<shCmds, shCallback, outsideShell>>

\* registerOutputCallback(sessionId, callback)
ShRegisterOutputCallback ==
    /\ ~shCallback
    /\ shCallback' = TRUE
    /\ shEv' = [NoShEv EXCEPT !.op = "registerOutputCallback"]
    /\ UNCHANGED <<shSession, shCmds, outsideShell>>

\* execute(sessionId, command, options).  manual: macOS, a shell session and
\* step.manualExecute; writeOk: writing the setup script succeeds (only
\* manual mode writes one).
ShExecute(manual, writeOk) ==
    /\ ~manual => writeOk
    /\ IF shSession.status = "absent"
       THEN UNCHANGED <<shSession, shCmds, shEv>>
       ELSE IF alreadyRunning(shSession)
       THEN /\ shEv' = [NoShEv EXCEPT !.op = "execute", !.kind = "rejected"]
            /\ UNCHANGED <<shSession, shCmds>>
       ELSE IF manual /\ ~writeOk
       THEN UNCHANGED <<shSession, shCmds, shEv>>
       ELSE \E k \in Cmds :
            /\ shCmds[k].state = "unused"
            /\ \A j \in Cmds : j < k => shCmds[j].state # "unused"
            /\ shEv' = [NoShEv EXCEPT !.op = "execute", !.kind = "started", !.cmd = k]
            /\ IF manual
               THEN /\ shSession' = [shSession EXCEPT !.status = "running",
                                                      !.prompt = k]
                    /\ shCmds' = settleCmds([shCmds EXCEPT ![k] =
                          [UnusedCmd EXCEPT !.state = "pending", !.mode = "manual",
                                            !.held = TRUE]])
               ELSE /\ shSession' = [shSession EXCEPT !.status = "running",
                                                      !.output = <<>>,
                                                      !.stderr = <<>>,
                                                      !.process = k]
                    /\ shCmds' = settleCmds([shCmds EXCEPT ![k] =
                          [UnusedCmd EXCEPT !.state = "pending", !.held = TRUE,
                                            !.proc = "running", !.timer = "armed"]])
    /\ UNCHANGED <<shCallback, outsideShell>>

\* proc.stdout.on('data') / proc.stderr.on('data') of command k's process:
\* the chunk goes to the session object the execute call looked up
ShData(k, stream) ==
    /\ shCmds[k].proc \in {"running", "killed"}
    /\ shCmds[k].held
    /\ Len(shSession.output) + Len(shSession.stderr) < MaxChunks
    /\ shSession' = IF stream = "stdout"
                    THEN [shSession EXCEPT !.output = Append(@, "chunk")]
                    ELSE [shSession EXCEPT !.stderr = Append(@, "chunk")]
    /\ shEv' = [NoShEv EXCEPT !.op = "data"]
    /\ UNCHANGED <<shCmds, shCallback, outsideShell>>

\* what the 'close' and 'error' handlers resolve with when the id is no
\* longer registered
sessionTerminated == [success |-> FALSE, output |-> <<>>, error |-> "Session terminated"]

\* proc.on('close', code) of command k's process, then the second 'close'
\* listener's clearTimeout.  code: 0, 1, or -1 for null (a process that was
\* killed or never spawned)
ShClose(k, code) ==
    /\ shCmds[k].proc \in {"running", "killed", "errored"}
    /\ shCmds[k].proc = "running" <=> code \in {0, 1}
    /\ LET closed == [shCmds EXCEPT ![k].proc = "closed",
                        ![k].timer = IF @ = "armed" THEN "off" ELSE @]
           ev == [NoShEv EXCEPT !.op = "close", !.cmd = k]
           res == IF shSession.status = "absent" THEN sessionTerminated
                  ELSE [success |-> code = 0, output |-> shSession.output,
                        error |-> IF code = 0 THEN "null"
                                  ELSE IF shSession.stderr # <<>> THEN "stderr"
                                  ELSE "Command failed with exit code"]
       IN
       /\ shSession' = IF shSession.status = "absent" THEN shSession
                       ELSE [shSession EXCEPT !.status = "ready", !.process = 0]
       /\ shCmds' = settleCmds(resolveCmd(closed, k, res))
       /\ shEv' = resolveEv(ev, closed, k, res)
    /\ UNCHANGED <<shCallback, outsideShell>>

\* proc.on('error', err) of command k's process: it could not be spawned.
\* closeFollows: Node emits 'close' after the 'error', or it does not
ShError(k, closeFollows) ==
    /\ shCmds[k].proc = "running"
    /\ LET errored == [shCmds EXCEPT ![k].proc =
                          IF closeFollows THEN "errored" ELSE "closed"]
           ev == [NoShEv EXCEPT !.op = "error", !.cmd = k]
           res == IF shSession.status = "absent" THEN sessionTerminated
                  ELSE [success |-> FALSE, output |-> shSession.output,
                        error |-> "err.message"]
       IN
       /\ shSession' = IF shSession.status = "absent" THEN shSession
                       ELSE [shSession EXCEPT !.status = "crashed", !.process = 0]
       /\ shCmds' = settleCmds(resolveCmd(errored, k, res))
       /\ shEv' = resolveEv(ev, errored, k, res)
    /\ UNCHANGED <<shCallback, outsideShell>>

\* the setTimeout callback of command k
ShTimeout(k) ==
    /\ shCmds[k].timer = "armed"
    /\ LET fired == [shCmds EXCEPT ![k].timer = "off"]
           ev == [NoShEv EXCEPT !.op = "timeout", !.cmd = k]
           res == [success |-> FALSE, output |-> shSession.output,
                   error |-> "Command timeout"]
       IN
       IF shCmds[k].held /\ shSession.process # 0
       THEN /\ shSession' = [shSession EXCEPT !.status = "ready", !.process = 0]
            /\ shCmds' = settleCmds(resolveCmd(killProc(fired, shSession.process),
                                               k, res))
            /\ shEv' = resolveEv([ev EXCEPT !.kind = "killed"], fired, k, res)
       ELSE /\ shSession' = shSession
            /\ shCmds' = settleCmds(fired)
            /\ shEv' = ev
    /\ UNCHANGED <<shCallback, outsideShell>>

\* what session.commandPromptResolve(response) resolves the promise with
promptResult(response) ==
    CASE response = "success" ->
           [success |-> TRUE, output |-> <<"Command completed successfully">>,
            error |-> "null"]
      [] response = "failed" ->
           [success |-> FALSE, output |-> <<>>, error |-> "User reported command failed"]
      [] OTHER ->
           [success |-> FALSE, output |-> <<>>, error |-> "User skipped step"]

\* session.commandPromptResolve(response) followed by its delete
promptResolve(session, cmds, response) ==
    [session |-> [session EXCEPT !.status = "ready", !.prompt = 0],
     cmds |-> resolveCmd(cmds, session.prompt, promptResult(response))]

\* respondToCommandPrompt(sessionId, response)
ShRespond(response) ==
    /\ IF shSession.status # "absent" /\ shSession.prompt # 0
       THEN LET r == promptResolve(shSession, shCmds, response) IN
            /\ shSession' = r.session
            /\ shCmds' = settleCmds(r.cmds)
            /\ shEv' = resolveEv([NoShEv EXCEPT !.op = "respond", !.kind = response],
                                 shCmds, shSession.prompt, promptResult(response))
       ELSE /\ shEv' = [NoShEv EXCEPT !.op = "respond", !.kind = "noop"]
            /\ UNCHANGED <<shSession, shCmds>>
    /\ UNCHANGED <<shCallback, outsideShell>>

\* terminateSession(sessionId)
ShTerminateSession ==
    /\ IF shSession.status = "absent"
       THEN UNCHANGED <<shSession, shCmds, shCallback, shEv>>
       ELSE LET r == IF shSession.prompt # 0
                     THEN promptResolve(shSession, shCmds, "failed")
                     ELSE [session |-> shSession, cmds |-> shCmds]
                killed == killProc(r.cmds, r.session.process)
            IN
            /\ shSession' = NoShellSession
            /\ shCmds' = settleCmds([k \in Cmds |-> [killed[k] EXCEPT !.held = FALSE]])
            /\ shCallback' = FALSE
            /\ shEv' = resolveEv([NoShEv EXCEPT !.op = "terminateSession",
                                                !.kind = "terminated"],
                                 shCmds, shSession.prompt, promptResult("failed"))
    /\ UNCHANGED outsideShell

(***************************************************************************)
(* RSessionManager.execute                                                 *)
(*                                                                         *)
(* One interactive session, created headless.  Text is a sequence of       *)
(* one-character strings; the marker is two tokens so that a chunk         *)
(* boundary can fall inside it.  The R process answers the code written to *)
(* its stdin with the code's output followed by the marker line; rxStream  *)
(* is what it has written to stdout and the 'data' events have not yet     *)
(* delivered.  A 'data' event delivers any non-empty prefix of it.         *)
(***************************************************************************)
RxSid == 1          \* the sessionId the calls are made with
MaxExecs == 2       \* execute calls that get past the status check
MaxText == 1        \* characters a command prints before the marker
MaxNow == 2         \* values Date.now() takes over the calls
MaxStderr == 1      \* chunks the process writes to stderr
MaxData == 2        \* 'data' events on the process's stdout

Execs == 1..MaxExecs

\* what a command can print: text of up to MaxText characters
Chars == {"a", " "}

RECURSIVE TextsOfLen(_)
TextsOfLen(n) ==
    IF n = 0 THEN {<<>>}
    ELSE {Append(t, ch) : t \in TextsOfLen(n - 1), ch \in Chars}

Texts == UNION {TextsOfLen(n) : n \in 0..MaxText}

\* `___END_MARKER_${Date.now()}___`
marker(now) == <<"___END_MARKER_", ToString(now)>>

\* session.output.includes(marker)
includes(text, m) ==
    \E i \in 1..(Len(text) - Len(m) + 1) : SubSeq(text, i, i + Len(m) - 1) = m

\* session.output.split(marker)[0]
splitFirst(text, m) ==
    IF includes(text, m)
    THEN LET i == MinOf({j \in 1..(Len(text) - Len(m) + 1) :
                           SubSeq(text, j, j + Len(m) - 1) = m})
         IN SubSeq(text, 1, i - 1)
    ELSE text

isSpace(ch) == ch \in {" ", "\n"}

\* String.prototype.trim
trim(text) ==
    LET keep == {i \in 1..Len(text) : ~isSpace(text[i])} IN
    IF keep = {} THEN <<>>
    ELSE SubSeq(text, MinOf(keep), CHOOSE i \in keep : \A j \in keep : j <= i)

NoRxResult == [success |-> FALSE, output |-> <<>>, outputNull |-> TRUE,
               error |-> "none", errorText |-> <<>>]

\* state: "unused" | "pending" | "resolved"; text: what the process prints
\* for the call's code; timer: "none" | "armed" | "off"; alone: no other
\* call's promise was unresolved when the call began
UnusedExec == [state |-> "unused", marker |-> 0, text |-> <<>>,
               timer |-> "none", result |-> NoRxResult, alone |-> FALSE]

NoRxEv == [op |-> "none", kind |-> "none", call |-> 0]

\* before any session exists
RExecInit ==
    /\ rxProc = "none"
    /\ rxOutput = <<>>
    /\ rxStderr = <<>>
    /\ rxStream = <<>>
    /\ rxData = 0
    /\ rxCalls = [k \in Execs |-> UnusedExec]
    /\ rxListeners = <<>>
    /\ rxNow = 1
    /\ rxEv = NoRxEv

\* resolve(result) of call k's promise: only the first call settles it
rxResolve(calls, k, result) ==
    IF calls[k].state = "pending"
    THEN [calls EXCEPT ![k].state = "resolved", ![k].result = result]
    ELSE calls

\* cleanup(): clearTimeout and removeListener of call k
cleanup(st, k) ==
    [st EXCEPT !.calls[k].timer = "off",
               !.listeners = SelectSeq(@, LAMBDA j : j # k)]

\* the 'data' listener createSession attaches to stdout
sessionOnData(st, text) == [st EXCEPT !.output = @ \o text]

\* outputListener of call k
outputListener(st, k, text) ==
    LET out == st.output \o text
        m   == marker(st.calls[k].marker)
        st1 == [st EXCEPT !.output = out]
    IN
    IF includes(out, m)
    THEN LET st2 == cleanup(st1, k) IN
         [st2 EXCEPT !.calls = rxResolve(@, k,
             [success |-> TRUE, output |-> trim(splitFirst(out, m)),
              outputNull |-> FALSE,
              error |-> IF st.stderr # <<>> THEN "stderr" ELSE "null",
              errorText |-> st.stderr])]
    ELSE st1

\* stdout.emit('data', text): the listeners attached when the event is
\* emitted run in the order they were attached
RECURSIVE emitData(_, _, _, _)
emitData(st, ls, i, text) ==
    IF i > Len(ls) THEN st
    ELSE emitData(outputListener(st, ls[i], text), ls, i + 1, text)

rxState == [output |-> rxOutput, stderr |-> rxStderr, calls |-> rxCalls,
            listeners |-> rxListeners]

RxCommit(st) ==
    /\ rxOutput' = st.output
    /\ rxStderr' = st.stderr
    /\ rxCalls' = st.calls
    /\ rxListeners' = st.listeners

\* execute(sessionId, code, timeout).  text: what R prints for the code;
\* writeOk: stdin.write does not throw; now: what Date.now() returns
RExecute(text, writeOk, now) ==
    /\ IF RxSid \notin DOMAIN sessions
       THEN /\ rxEv' = [NoRxEv EXCEPT !.op = "execute", !.kind = "not-found"]
            /\ UNCHANGED <<rxOutput, rxStderr, rxCalls, rxListeners, rxStream, rxNow>>
       ELSE IF sessions[RxSid].status # "running"
       THEN /\ rxEv' = [NoRxEv EXCEPT !.op = "execute", !.kind = "rejected"]
            /\ UNCHANGED <<rxOutput, rxStderr, rxCalls, rxListeners, rxStream, rxNow>>
       ELSE \E k \in Execs :
            /\ now >= rxNow
            /\ rxNow' = now
            /\ rxCalls[k].state = "unused"
            /\ \A j \in Execs : j < k => rxCalls[j].state # "unused"
            /\ LET started ==
                     [output |-> <<>>, stderr |-> <<>>,
                      calls |-> [rxCalls EXCEPT ![k] =
                                   [UnusedExec EXCEPT !.state = "pending",
                                                      !.marker = now,
                                                      !.text = text,
                                                      !.timer = "armed",
                                                      !.alone =
                                                        \A j \in Execs :
                                                          rxCalls[j].state # "pending"]],
                      listeners |-> Append(rxListeners, k)]
                   failed == cleanup(started, k)
               IN
               IF writeOk
               THEN /\ RxCommit(started)
                    /\ rxStream' = rxStream \o text \o marker(now) \o <<"\n">>
                    /\ rxEv' = [NoRxEv EXCEPT !.op = "execute", !.kind = "started",
                                              !.call = k]
               ELSE /\ RxCommit([failed EXCEPT !.calls = rxResolve(@, k,
                           [NoRxResult EXCEPT !.error = "err.message"])])
                    /\ rxStream' = rxStream
                    /\ rxEv' = [NoRxEv EXCEPT !.op = "execute",
                                              !.kind = "write-failed", !.call = k]
    /\ UNCHANGED <<sessions, usedPorts, availablePorts, rxProc, rxData, outsideRExec>>

\* a 'data' event on the process's stdout carrying the next n characters
RxStdoutData(n) ==
    /\ n <= Len(rxStream)
    /\ rxData < MaxData
    /\ rxData' = rxData + 1
    /\ LET text == SubSeq(rxStream, 1, n) IN
       RxCommit(emitData(sessionOnData(rxState, text), rxListeners, 1, text))
    /\ rxStream' = SubSeq(rxStream, n + 1, Len(rxStream))
    /\ rxEv' = [NoRxEv EXCEPT !.op = "stdout"]
    /\ UNCHANGED <<sessions, usedPorts, availablePorts, rxProc, rxNow, outsideRExec>>

\* a 'data' event on the process's stderr
RxStderrData ==
    /\ rxProc = "running"
    /\ Len(rxStderr) < MaxStderr
    /\ rxStderr' = Append(rxStderr, "e")
    /\ rxEv' = [NoRxEv EXCEPT !.op = "stderr"]
    /\ UNCHANGED <<sessions, usedPorts, availablePorts, rxProc, rxNow, rxOutput,
                   rxCalls, rxListeners, rxStream, rxData, outsideRExec>>

\* the timeout resolves like the failed write, with output: null
timeoutResultNull(output) == [NoRxResult EXCEPT !.error = "Execution timeout"]

\* what the setTimeout callback resolves with
timeoutResult(output) ==
    [success |-> FALSE, output |-> output, outputNull |-> FALSE,
     error |-> "Execution timeout", errorText |-> <<>>]

\* the setTimeout callback of call k
RxTimeout(k) ==
    /\ rxCalls[k].timer = "armed"
    /\ LET st == cleanup(rxState, k) IN
       RxCommit([st EXCEPT !.calls = rxResolve(@, k, timeoutResult(rxOutput))])
    /\ rxEv' = [NoRxEv EXCEPT !.op = "timeout", !.call = k]
    /\ UNCHANGED <<sessions, usedPorts, availablePorts, rxProc, rxNow, rxStream,
                   rxData, outsideRExec>>

\* the process's 'exit' event: session.status = 'crashed' on the record the
\* handler holds (no dialog: the session is headless)
RxExit ==
    /\ rxProc \in {"running", "killed"}
    /\ rxProc' = "exited"
    /\ sessions' = IF RxSid \in DOMAIN sessions
                   THEN [sessions EXCEPT ![RxSid].status = "crashed"]
                   ELSE sessions
    /\ rxEv' = [NoRxEv EXCEPT !.op = "exit"]
    /\ UNCHANGED <<usedPorts, availablePorts, rxNow, rxOutput, rxStderr, rxCalls,
                   rxListeners, rxStream, rxData, outsideRExec>>

\* terminateSession(sessionId) of the session with the process
RxTerminateSession ==
    /\ RxSid \in DOMAIN sessions
    /\ LET r == releasePort(usedPorts, availablePorts, sessions[RxSid].port) IN
       /\ usedPorts' = r.used
       /\ availablePorts' = r.avail
    /\ sessions' = sessionsDelete(sessions, RxSid)
    /\ rxProc' = IF rxProc = "running" THEN "killed" ELSE rxProc
    /\ rxEv' = [NoRxEv EXCEPT !.op = "terminateSession"]
    /\ UNCHANGED <<rxNow, rxOutput, rxStderr, rxCalls, rxListeners, rxStream,
                   rxData, outsideRExec>>

(***************************************************************************)
(* RSessionManager: process exit and crash handling                        *)
(*                                                                         *)
(* One session id, any number of session records over time.  A record and  *)
(* the R process createSession spawned for it are named by one number.     *)
(* The handlers of a process hold their own record (session.status,        *)
(* session.headless) and the session id; _handleCrash, terminateSession,   *)
(* execute and startRAVE look the id up.  A record that is no longer       *)
(* registered is read by nobody, so only the registered record is kept in  *)
(* `sessions`; a process that has ended, is not registered and has no      *)
(* dialog on screen is forgotten.                                          *)
(***************************************************************************)
MaxSpawns == 2      \* R processes that exist at a time

Procs == 1..MaxSpawns

\* state: "none" | "running" | "killed" | "exited" | "failed"
NoProc == [state |-> "none", headless |-> FALSE]

\* the record createSession builds around process p
spawnedSession(port, p, headless) ==
    [port |-> port, status |-> "running", proc |-> p, headless |-> headless]

\* a createSession call that is not in flight
LcIdle == [pc |-> "idle", port |-> 0, sid |-> 0, headless |-> FALSE]

\* kind of an exit: the state the process was in ("running": it ended by
\* itself, "killed"); proc: the process the event is about; registered: the process of the
\* record found under the id when the handler began (0: none); dialog: the
\* handler raised the crash dialog; headless: that process's record is
NoLcEv == [op |-> "none", kind |-> "none", proc |-> 0, registered |-> 0,
           dialog |-> FALSE, headless |-> FALSE]

CrashInit ==
    /\ usedPorts = {}
    /\ availablePorts = <<>>
    /\ allocCalls = [c \in Calls |-> LcIdle]
    /\ sessions = [x \in {} |-> spawnedSession(0, 0, FALSE)]
    /\ lcProcs = [p \in Procs |-> NoProc]
    /\ lcDialogs = {}
    /\ lcEv = NoLcEv

\* the process of the record registered under the id (0: none)
registeredProc(ss) == IF RxSid \in DOMAIN ss THEN ss[RxSid].proc ELSE 0

lcState == [used |-> usedPorts, avail |-> availablePorts, calls |-> allocCalls,
            sessions |-> sessions, procs |-> lcProcs, dialogs |-> lcDialogs]

\* processes that ended and that no record, dialog or handler refers to
lcForget(st) ==
    [st EXCEPT !.procs = [p \in Procs |->
        IF /\ st.procs[p].state \in {"exited", "failed"}
           /\ registeredProc(st.sessions) # p
           /\ p \notin st.dialogs
        THEN NoProc ELSE st.procs[p]]]

LcCommit(st, ev) ==
    LET st1 == lcForget(st) IN
    /\ usedPorts' = st1.used
    /\ availablePorts' = st1.avail
    /\ allocCalls' = st1.calls
    /\ sessions' = st1.sessions
    /\ lcProcs' = st1.procs
    /\ lcDialogs' = st1.dialogs
    /\ lcEv' = ev
    /\ UNCHANGED <<sortVars, shellVars, rexecVars, instVars, prereqVars, held,
                   overlap, reuseDue, lastReleased, portEv>>

\* a process can be spawned for every call in flight and for one more
CanSpawn(st) ==
    Cardinality({p \in Procs : st.procs[p].state = "none"})
      > Cardinality({c \in Calls : st.calls[c].pc # "idle"})

FreeProc(st) == MinOf({p \in Procs : st.procs[p].state = "none"})

\* createSession after `await this.portManager.allocatePort()` has settled
\* with r: spawn, attach the handlers and register the record
lcCreated(st, c, headless, r) ==
    LET st1 == [st EXCEPT !.used = r.used, !.avail = r.avail] IN
    CASE r.kind = "await" ->
           [st1 EXCEPT !.calls[c] = [pc |-> "probing", port |-> r.port,
                                     sid |-> RxSid, headless |-> headless]]
      [] r.kind = "return" ->
           LET p == FreeProc(st) IN
           [st1 EXCEPT !.calls[c] = LcIdle,
                       !.procs[p] = [state |-> "running", headless |-> headless],
                       !.sessions = sessionsSet(@, RxSid,
                                       spawnedSession(r.port, p, headless))]
      [] OTHER -> [st1 EXCEPT !.calls[c] = LcIdle]

\* createSession(sessionId, rPath, {headless}) with an R path, up to its
\* first suspension or return
lcCreateSession(st, c, headless) ==
    IF RxSid \in DOMAIN st.sessions
    THEN st
    ELSE lcCreated(st, c, headless, allocBegin(st.used, st.avail))

\* terminateSession(sessionId)
lcTerminateSession(st) ==
    IF RxSid \notin DOMAIN st.sessions
    THEN st
    ELSE LET s == st.sessions[RxSid]
             r == releasePort(st.used, st.avail, s.port)
         IN
         [st EXCEPT !.procs[s.proc].state = IF @ = "running" THEN "killed" ELSE @,
                    !.used = r.used, !.avail = r.avail,
                    !.sessions = sessionsDelete(@, RxSid)]

\* the guards execute and startRAVE begin with pass for any registered
\* session
statusGuardExists(ss) ==
    IF RxSid \notin DOMAIN ss THEN "not-found" ELSE "pass"

\* `if (!session) ...; if (session.status !== 'running') ...` of execute and
\* startRAVE
statusGuard(ss) ==
    IF RxSid \notin DOMAIN ss THEN "not-found"
    ELSE IF ss[RxSid].status # "running" THEN "rejected"
    ELSE "pass"

\* createSession(sessionId, rPath, {headless}) called by the application
LcCreateSession(c, headless) ==
    /\ allocCalls[c].pc = "idle"
    /\ \A d \in Calls : d < c => allocCalls[d].pc # "idle"
    /\ CanSpawn(lcState)
    /\ LcCommit(lcCreateSession(lcState, c, headless),
                [NoLcEv EXCEPT !.op = "createSession",
                               !.kind = IF RxSid \in DOMAIN sessions
                                        THEN "exists" ELSE "begun",
                               !.registered = registeredProc(sessions),
                               !.headless = headless])

\* the probe a createSession call is suspended at resolves
LcCreateResume(c) ==
    /\ allocCalls[c].pc = "probing"
    /\ \E available \in BOOLEAN :
         LcCommit(lcCreated(lcState, c, allocCalls[c].headless,
                            allocResume(usedPorts, availablePorts,
                                        allocCalls[c].port, available)),
                  [NoLcEv EXCEPT !.op = "createSession-resumed",
                                 !.registered = registeredProc(sessions),
                                 !.headless = allocCalls[c].headless])

\* session.status = 'crashed' on the record of process p
setCrashed(st, p) ==
    IF registeredProc(st.sessions) = p
    THEN [st EXCEPT !.sessions[RxSid].status = "crashed"]
    ELSE st

\* _handleCrash(sessionId, code, signal) up to showMessageBox, called by the
\* exit handler of process p
handleCrash(st, p) ==
    IF RxSid \notin DOMAIN st.sessions
    THEN st
    ELSE [st EXCEPT !.dialogs = @ \cup {p}]

\* rProcess.on('exit') of process p
LcExit(p) ==
    /\ lcProcs[p].state \in {"running", "killed"}
    /\ LET st1 == setCrashed([lcState EXCEPT !.procs[p].state = "exited"], p)
           st2 == IF ~lcProcs[p].headless THEN handleCrash(st1, p) ELSE st1
       IN
       LcCommit(st2, [NoLcEv EXCEPT !.op = "exit", !.proc = p,
                                    !.kind = lcProcs[p].state,
                                    !.registered = registeredProc(sessions),
                                    !.dialog = p \in st2.dialogs,
                                    !.headless = lcProcs[p].headless])

\* rProcess.on('error') of process p: R could not be spawned
LcError(p) ==
    /\ lcProcs[p].state = "running"
    /\ LcCommit(setCrashed([lcState EXCEPT !.procs[p].state = "failed"], p),
                [NoLcEv EXCEPT !.op = "error", !.proc = p,
                               !.registered = registeredProc(sessions),
                               !.headless = lcProcs[p].headless])

\* the .then callback of the dialog raised by the exit of process p
LcAnswer(p, restart) ==
    /\ p \in lcDialogs
    /\ LET st1 == lcTerminateSession([lcState EXCEPT !.dialogs = @ \ {p}])
           ev  == [NoLcEv EXCEPT !.op = "answer",
                                 !.kind = IF restart THEN "restart" ELSE "cancel",
                                 !.proc = p,
                                 !.registered = registeredProc(sessions)]
       IN
       IF restart
       THEN \E c \in Calls :
               /\ allocCalls[c].pc = "idle"
               /\ \A d \in Calls : d < c => allocCalls[d].pc # "idle"
               /\ CanSpawn(st1)
               /\ LcCommit(lcCreateSession(st1, c, FALSE), ev)
       ELSE LcCommit(st1, ev)

\* terminateSession(sessionId) called by the application
LcTerminateSession ==
    \E st \in {lcTerminateSession(lcState)} :
       LcCommit(st, [NoLcEv EXCEPT !.op = "terminateSession",
                                   !.registered = registeredProc(sessions)])

\* execute(sessionId, code) up to the write to the process's stdin
LcExecute ==
    \E g \in {statusGuard(sessions)} :
       LcCommit(lcState, [NoLcEv EXCEPT !.op = "execute",
                             !.kind = IF g = "pass" THEN "written" ELSE g,
                             !.registered = registeredProc(sessions)])

\* startRAVE(sessionId) up to the write to the process's stdin
LcStartRAVE ==
    \E g \in {statusGuard(sessions)} :
       LcCommit(lcState, [NoLcEv EXCEPT !.op = "startRAVE",
                             !.kind = IF g = "pass" THEN "written" ELSE g,
                             !.registered = registeredProc(sessions)])

(***************************************************************************)
(* RAVEInstaller.topologicalSort                                           *)
(*                                                                         *)
(* A step is [id, needs]; needs is the array of predecessor ids in the     *)
(* order the plan lists them.  Step ids are opaque keys (the code only      *)
(* uses them as Map/Set keys), so the i-th declared step is given id i;     *)
(* an id above Len(steps) names a step that is absent from the plan.        *)
(***************************************************************************)
MaxSteps == 3       \* longest plan
MaxEdges == 4       \* most 'needs' entries in a plan, over all its steps

StepIds == 1..(MaxSteps + 1)

NoSortResult == [success |-> FALSE, sorted |-> <<>>, error |-> 0]

\* stepsMap.has(id) after `steps.forEach(step => stepsMap.set(step.id, step))`
stepsMapHas(ss, id) == \E i \in DOMAIN ss : ss[i].id = id

\* stepsMap.get(id): a later step with the same id overwrites an earlier one
stepsMapGet(ss, id) ==
    ss[CHOOSE i \in DOMAIN ss :
          /\ ss[i].id = id
          /\ \A j \in DOMAIN ss : ss[j].id = id => j <= i]

\* sorted.unshift(step): the step is put in front of the steps done before it
sortedUnshift(sorted, step) == <<step>> \o sorted

\* sorted.push(step)
sortedPush(sorted, step) == Append(sorted, step)

\* The state of one topologicalSort call: the three collections the closure
\* `visit` shares, and `ok`, the value the last visit() returned.
sortStart == [sorted |-> <<>>, visited |-> {}, visiting |-> {}, ok |-> TRUE]

RECURSIVE visit(_, _, _)
RECURSIVE visitNeeds(_, _, _, _)

\* const visit = (stepId) => { ... }
visit(st, ss, stepId) ==
    IF stepId \in st.visited THEN [st EXCEPT !.ok = TRUE]
    ELSE IF stepId \in st.visiting THEN [st EXCEPT !.ok = FALSE]
    ELSE LET st1 == [st EXCEPT !.visiting = @ \cup {stepId}] IN
         IF ~stepsMapHas(ss, stepId)
         THEN [st1 EXCEPT !.ok = TRUE]      \* 'Step not found': return true
         ELSE LET step == stepsMapGet(ss, stepId)
                  st2  == visitNeeds(st1, ss, step.needs, 1)
              IN  IF ~st2.ok THEN st2
                  ELSE [st2 EXCEPT !.visiting = @ \ {stepId},
                                   !.visited  = @ \cup {stepId},
                                   !.sorted   = sortedPush(@, step),
                                   !.ok       = TRUE]

\* for (const depId of step.needs) { if (!visit(depId)) return false; }
visitNeeds(st, ss, needs, i) ==
    IF i > Len(needs) THEN [st EXCEPT !.ok = TRUE]
    ELSE LET r == visit(st, ss, needs[i]) IN
         IF ~r.ok THEN r ELSE visitNeeds(r, ss, needs, i + 1)

\* for (const step of steps) { if (!visited.has(step.id)) if (!visit(step.id)) return {...} }
RECURSIVE sortLoop(_, _, _)
sortLoop(st, ss, i) ==
    IF i > Len(ss)
    THEN [success |-> TRUE, sorted |-> st.sorted, error |-> 0]
    ELSE IF ss[i].id \in st.visited
         THEN sortLoop(st, ss, i + 1)
         ELSE LET r == visit(st, ss, ss[i].id) IN
              IF ~r.ok
              THEN [success |-> FALSE, sorted |-> <<>>, error |-> ss[i].id]
              ELSE sortLoop(r, ss, i + 1)

\* error is the id named in 'Circular dependency detected involving step: <id>',
\* 0 for null
topologicalSort(ss) == sortLoop(sortStart, ss, 1)

\* ---- the plan is read step by step, then sorted ----
SortInit ==
    /\ steps = <<>>
    /\ sortPc = "loading"
    /\ sortResult = NoSortResult

\* the plan declares one more step (with no needs yet)
DeclareStep ==
    /\ sortPc = "loading"
    /\ Len(steps) < MaxSteps
    /\ steps' = Append(steps, [id |-> Len(steps) + 1, needs |-> <<>>])
    /\ UNCHANGED <<sortPc, sortResult, outsideSort>>

\* the last declared step lists one more id under 'needs'
DeclareNeed ==
    /\ sortPc = "loading"
    /\ Len(steps) > 0
    /\ SumLens(steps, 1) < MaxEdges
    /\ \E d \in StepIds :
          steps' = [steps EXCEPT ![Len(steps)].needs = Append(@, d)]
    /\ UNCHANGED <<sortPc, sortResult, outsideSort>>

\* executeInstallation: const sortResult = this.topologicalSort(this.checklist.steps)
RunSort ==
    /\ sortPc = "loading"
    /\ sortPc' = "sorted"
    /\ sortResult' = topologicalSort(steps)
    /\ UNCHANGED <<steps, outsideSort>>

SortNext == DeclareStep \/ DeclareNeed \/ RunSort

(***************************************************************************)
(* RAVEInstaller.executeInstallation                                       *)
(*                                                                         *)
(* A checklist step is [id, needs, required, if]: `if` says whether the    *)
(* step has a skip condition.  As in the sort, the i-th step of the file   *)
(* has id i and an id above the length of the checklist names a step that  *)
(* is absent.  Every executeInstallation call (a run) loads and sorts the  *)
(* checklist anew, so the step objects it stores in this.steps are its     *)
(* own; a step object is referred to as <<run that made it, id>>.  A run   *)
(* is suspended only where the code awaits something that is not already   *)
(* settled: the condition process, the proceed signal, the step's shell    *)
(* command.  What a handler does from one such point to the next is one    *)
(* step of the model.  The shell command of a step is taken at its         *)
(* outcome: ShellSessionManager.execute resolves with success or not, and  *)
(* not with success once the session has been terminated.                  *)
(***************************************************************************)
MaxInstSteps == 2   \* steps of the checklist
MaxRuns == 2        \* executeInstallation calls alive at a time

InstIds == 1..(MaxInstSteps + 1)
Runs == 1..MaxRuns

\* the `needs` a step is given: none, or one id
NeedsChoices == {<<>>} \cup {<<d>> : d \in InstIds}

StepFields == [needs : NeedsChoices, required : BOOLEAN, if : BOOLEAN]

\* the checklists of n steps
ChecklistsOfLen(n) ==
    { [k \in 1..n |-> [id |-> k, needs |-> f[k].needs,
                       required |-> f[k].required, if |-> f[k].if]] :
      f \in [1..n -> StepFields] }

Checklists == UNION {ChecklistsOfLen(n) : n \in 0..MaxInstSteps}

\* what executeInstallation returns and installation-complete reports
\* (emitted: installation-complete was emitted; aborted: its `aborted`)
NoInstResult == [returned |-> FALSE, emitted |-> FALSE, success |-> FALSE,
                 aborted |-> FALSE, completed |-> 0, failed |-> 0,
                 skipped |-> 0, blocked |-> 0]

\* pc:   "idle" | "cond" (the condition process runs) | "condExited" (it has
\*       exited with `code`, its 'close' event is due) | "waitBlocked" |
\*       "waitFailed" (at `await this._waitForProceedSignal()`) | "exec" (at
\*       `await this.shellSessionManager.execute(...)`) | "done"
\* i:    the loop index (from 1); cur: the loop's `step`
\* killed: the step's shell session has been terminated
\* sessions: the shell sessions the run has created that are registered in
\*       the shell session manager
\* closed0: the steps whose condition check 'close' resolved with exit code 0
\* log:  the progress events emitted, in order
\* resumed: how often proceedAnyway() or abort() has resolved the run's
\*       proceed signal
NoRun == [pc |-> "idle", i |-> 0, cur |-> <<0, 0>>, code |-> 0, killed |-> FALSE,
          completed |-> 0, failed |-> 0, skipped |-> 0, blocked |-> 0,
          executed |-> <<>>, log |-> <<>>, sessions |-> 0, resumed |-> 0,
          closed0 |-> {}, result |-> NoInstResult]

NoStatus == [s \in InstIds |-> "none"]

\* The checklist file as loadChecklist finds it: it exists, yaml.load
\* parses it, it has a `steps` array, every step has id, name and type.
\* (`checklist` holds the steps of a file that has them.)
ChecklistFiles ==
    { f \in [exists : BOOLEAN, parses : BOOLEAN, hasSteps : BOOLEAN,
             stepsValid : BOOLEAN] :
        /\ f.parses => f.exists
        /\ f.hasSteps => f.parses
        /\ f.stepsValid => f.hasSteps }

NoFile == [exists |-> FALSE, parses |-> FALSE, hasSteps |-> FALSE,
           stepsValid |-> FALSE]

\* the step lists a file can hold: `checklist` is read only when the file
\* loads
StepsIn(f, lists) == IF f.stepsValid THEN lists ELSE {<<>>}

\* loadChecklist()
loadChecklist(f) ==
    [success |-> f.exists /\ f.parses /\ f.hasSteps /\ f.stepsValid,
     error |-> IF ~f.exists THEN "Checklist file not found"
               ELSE IF ~f.parses THEN "Failed to parse YAML"
               ELSE IF ~f.hasSteps THEN "Invalid checklist format: missing steps array"
               ELSE IF ~f.stepsValid THEN "Invalid step: missing id, name, or type"
               ELSE "null"]

\* op: the handler that ran last; run: the run that went on in it
NoInstEv == [op |-> "none", run |-> 0]

\* the installer as its constructor leaves it
InstConstructed ==
    /\ aborted = FALSE
    /\ proceedSignal = 0
    /\ thisSteps = 0
    /\ stepStatus = [r \in Runs |-> NoStatus]
    /\ runs = [r \in Runs |-> NoRun]
    /\ instEv = NoInstEv

\* no installer is at work: the components below it are used on their own
NoInstaller ==
    /\ checklist = <<>>
    /\ checklistFile = NoFile
    /\ aborted = FALSE
    /\ proceedSignal = 0
    /\ thisSteps = 0
    /\ stepStatus = <<>>
    /\ runs = <<>>
    /\ instEv = NoInstEv

\* the installer's fields and the runs, as one value the handlers transform
world == [aborted |-> aborted, proceedSignal |-> proceedSignal,
          thisSteps |-> thisSteps, stepStatus |-> stepStatus, runs |-> runs]

\* sortResult.sorted, as ids
sortedIds == LET s == topologicalSort(checklist).sorted
             IN  [k \in 1..Len(s) |-> s[k].id]

\* the step of the checklist with this id
stepOf(id) == stepsMapGet(checklist, id)

statusOf(w, ref) == w.stepStatus[ref[1]][ref[2]]

\* step.status = st
setStatus(w, ref, st) == [w EXCEPT !.stepStatus[ref[1]][ref[2]] = st]

\* onProgress({type, step})
emit(w, r, type, id) ==
    [w EXCEPT !.runs[r].log = Append(@, [type |-> type, step |-> id])]

\* executedSteps.push(step)
executedPush(w, r, ref) == [w EXCEPT !.runs[r].executed = Append(@, ref)]

\* executedMap.get(depId): the status of the last executed step with that id
\* that has a status, "none" if there is none
executedMapGet(w, executed, depId) ==
    LET idx == {k \in 1..Len(executed) :
                  executed[k][2] = depId /\ statusOf(w, executed[k]) # "none"}
    IN  IF idx = {} THEN "none"
        ELSE statusOf(w, executed[CHOOSE k \in idx : \A j \in idx : j <= k])

\* a dependency blocks whatever its status
needOkNever(depStatus) == FALSE

\* no dependency blocks
needOkAlways(depStatus) == TRUE

\* !(!depStatus || (depStatus !== 'success' && depStatus !== 'skipped'))
needOk(depStatus) == depStatus \in {"success", "skipped"}

\* checkDependencies(step, executedSteps)
checkDependencies(w, id, executed) ==
    LET needs == stepOf(id).needs
        blockedBy == SelectSeq(needs,
                        LAMBDA d : ~needOk(executedMapGet(w, executed, d)))
    IN  [satisfied |-> Len(blockedBy) = 0, blockedBy |-> blockedBy]

\* the condition never lets the step be skipped
canSkipNever(code) == FALSE

\* const canSkip = code === 0
canSkip(code) == code = 0

\* success whenever no step failed, aborted or not
runSuccessNoAbort(failed, ab) == failed = 0

\* const success = failed === 0 && !this._aborted
runSuccess(failed, ab) == failed = 0 /\ ~ab

\* after the loop: installation-complete, return
finishRun(w, r) ==
    LET run == w.runs[r] IN
    [emit(w, r, "installation-complete", 0) EXCEPT
        !.runs[r].pc = "done",
        !.runs[r].result = [returned |-> TRUE, emitted |-> TRUE,
                            success |-> runSuccess(run.failed, w.aborted),
                            aborted |-> w.aborted,
                            completed |-> run.completed, failed |-> run.failed,
                            skipped |-> run.skipped, blocked |-> run.blocked]]

RECURSIVE iterate(_, _)
RECURSIVE afterCondition(_, _, _)
RECURSIVE afterExecute(_, _, _)
RECURSIVE afterProceed(_, _)

\* the promise is made and not awaited: the run goes on at once
waitForProceedSignalNotAwaited(w, r, pc) ==
    afterProceed([w EXCEPT !.proceedSignal = r, !.runs[r].pc = pc], r)

\* return new Promise((resolve) => { this._proceedSignal = resolve; })
waitForProceedSignal(w, r, pc) ==
    [w EXCEPT !.proceedSignal = r, !.runs[r].pc = pc]

\* `continue`, or the end of the loop body: i++
nextStep(w, r) == iterate([w EXCEPT !.runs[r].i = @ + 1], r)

\* the top of the loop down to `await this.evaluateCondition(step)`, which
\* is settled at once for a step without `if`
iterate(w, r) ==
    IF w.runs[r].i > Len(sortedIds) \/ w.aborted
    THEN finishRun(w, r)
    ELSE LET id == sortedIds[w.runs[r].i]
             w1 == [w EXCEPT !.runs[r].cur = <<w.thisSteps, id>>]
         IN  IF stepOf(id).if
             THEN [w1 EXCEPT !.runs[r].pc = "cond"]
             ELSE afterCondition(w1, r, FALSE)

\* executeStep down to `await this.shellSessionManager.execute(...)`: the
\* step-start event, createSession, registerOutputCallback, execute
executeStepBegin(w, r) ==
    [emit(w, r, "step-start", w.runs[r].cur[2]) EXCEPT
        !.runs[r].pc = "exec", !.runs[r].killed = FALSE,
        !.runs[r].sessions = @ + 1]

\* the session is left registered after the command
cleanupSessionSkipped(w, r) == w

\* if (session) { this.shellSessionManager.terminateSession(sessionId); }
cleanupSession(w, r) ==
    IF w.runs[r].killed THEN w
    ELSE [w EXCEPT !.runs[r].sessions = @ - 1]

\* the loop body after the condition is evaluated, down to the next await
afterCondition(w, r, skip) ==
    LET step == w.runs[r].cur
        id == step[2]
    IN  IF skip
        THEN LET w1 == executedPush(setStatus(w, step, "skipped"), r, step)
                 w2 == [w1 EXCEPT !.runs[r].skipped = @ + 1]
             IN  nextStep(emit(w2, r, "step-skipped", id), r)
        ELSE IF ~checkDependencies(w, id, w.runs[r].executed).satisfied
        THEN LET w1 == executedPush(setStatus(w, step, "blocked"), r, step)
                 w2 == emit([w1 EXCEPT !.runs[r].blocked = @ + 1], r,
                            "step-blocked", id)
             IN  IF stepOf(id).required
                 THEN waitForProceedSignal(w2, r, "waitBlocked")
                 ELSE nextStep([setStatus(w2, step, "skipped") EXCEPT
                                   !.runs[r].skipped = @ + 1], r)
        ELSE executeStepBegin(w, r)

\* executeStep after the command's promise has resolved, and the loop body
\* after `await this.executeStep(step, onProgress)`, down to the next await
afterExecute(w, r, success) ==
    LET step == w.runs[r].cur
        id == step[2]
        w1 == emit(cleanupSession(w, r), r,
                   IF success THEN "step-complete" ELSE "step-failed", id)
        w2 == executedPush(
                 setStatus(w1, step, IF success THEN "success" ELSE "failed"),
                 r, step)
    IN  IF success
        THEN nextStep([w2 EXCEPT !.runs[r].completed = @ + 1], r)
        ELSE LET w3 == [w2 EXCEPT !.runs[r].failed = @ + 1] IN
             IF w3.aborted THEN finishRun(w3, r)
             ELSE IF stepOf(id).required
             THEN waitForProceedSignal(
                     emit(w3, r, "step-requires-action", id), r, "waitFailed")
             ELSE nextStep(w3, r)

\* the loop body after `await this._waitForProceedSignal()` (blocked step or
\* failed step), down to the next await
afterProceed(w, r) ==
    LET step == w.runs[r].cur
        w1 == [setStatus(w, step, "skipped") EXCEPT !.runs[r].skipped = @ + 1]
    IN  IF w.aborted THEN finishRun(w, r)
        ELSE IF w.runs[r].pc = "waitBlocked"
        THEN nextStep(emit(w1, r, "step-skipped", step[2]), r)
        ELSE nextStep(w1, r)

\* this.shellSessionManager.terminateAll(): the step commands in flight lose
\* their sessions
terminateAll(w) ==
    [w EXCEPT !.runs = [r \in Runs |->
        IF w.runs[r].pc = "exec"
        THEN [w.runs[r] EXCEPT !.killed = TRUE, !.sessions = 0]
        ELSE [w.runs[r] EXCEPT !.sessions = 0]]]

\* if (this._proceedSignal) { this._proceedSignal(); this._proceedSignal = null; }
\* and then the continuation of the run that was waiting
resolveSignal(w) ==
    IF w.proceedSignal = 0 THEN w
    ELSE afterProceed([w EXCEPT !.proceedSignal = 0,
                                !.runs[w.proceedSignal].resumed = @ + 1],
                      w.proceedSignal)

\* abort()
abort(w) ==
    LET w1 == [w EXCEPT !.aborted = TRUE] IN
    IF w1.proceedSignal = 0 THEN terminateAll(w1)
    ELSE afterProceed(terminateAll([w1 EXCEPT
                         !.proceedSignal = 0,
                         !.runs[w1.proceedSignal].resumed = @ + 1]),
                      w1.proceedSignal)

\* the run goes on whatever the sort reports
sortFailedNever(sortRes) == FALSE

\* if (!sortResult.success)
sortFailed(sortRes) == ~sortRes.success

\* executeInstallation down to its first await that is not settled
\* (this.sessionManager.terminateAll() ends the R sessions, which are no part
\* of the installer's state; loadChecklist and the sort are settled at once)
executeInstallation(w, r, loadOk) ==
    LET w0 == [w EXCEPT !.aborted = FALSE, !.runs[r] = NoRun]
        failure == [emit(w0, r, "error", 0) EXCEPT
                      !.runs[r].pc = "done",
                      !.runs[r].result = [NoInstResult EXCEPT
                          !.returned = TRUE, !.failed = 1]]
    IN  IF ~loadOk THEN failure
        ELSE IF sortFailed(topologicalSort(checklist)) THEN failure
        ELSE iterate(emit([w0 EXCEPT !.thisSteps = r,
                                     !.stepStatus[r] = NoStatus,
                                     !.runs[r].i = 1],
                          r, "installation-start", 0), r)

\* ---- the events ----
outsideInst == <<sortVars, portVars, rsessVars, shellVars, rexecVars, prereqVars, crashVars>>

Live(r) == runs[r].pc \notin {"idle", "done"}

\* a new run takes the first slot whose run has returned
FreeRun(r) ==
    /\ ~Live(r)
    /\ \A q \in Runs : q < r => Live(q)

\* run q holds a step object that run g's sort produced
HoldsStepOf(q, g) ==
    \/ runs[q].cur[1] = g
    \/ \E k \in 1..Len(runs[q].executed) : runs[q].executed[k][1] = g

\* the state a handler leaves
InstCommit(w, op, r) ==
    /\ aborted' = w.aborted
    /\ proceedSignal' = w.proceedSignal
    /\ thisSteps' = w.thisSteps
    /\ stepStatus' = w.stepStatus
    /\ runs' = w.runs
    /\ instEv' = [op |-> op, run |-> r]
    /\ UNCHANGED <<checklist, checklistFile, outsideInst>>

\* 'plugin:installer:start': executeInstallation(onProgress).  (The slot
\* of a run that has returned is taken again once no live run holds its
\* step objects.)
StartInstallation(r) ==
    /\ FreeRun(r)
    /\ \A q \in Runs : Live(q) => ~HoldsStepOf(q, r)
    /\ InstCommit(executeInstallation(world, r, loadChecklist(checklistFile).success),
                  "start", r)

\* start, called while no run is in flight
StartAlone ==
    /\ \A q \in Runs : ~Live(q)
    /\ StartInstallation(1)

\* the condition process of run r exits with this code
CondExit(r, code) ==
    /\ runs[r].pc = "cond"
    /\ InstCommit([world EXCEPT !.runs[r].pc = "condExited",
                                !.runs[r].code = code], "condExit", r)

\* proc.on('close', (code) => ...) of the condition process
CondClose(r) ==
    /\ runs[r].pc = "condExited"
    /\ LET code == runs[r].code
           w == IF code = 0
                THEN [world EXCEPT !.runs[r].closed0 = @ \cup {runs[r].cur[2]}]
                ELSE world
       IN  InstCommit(afterCondition(w, r, canSkip(code)), "condClose", r)

\* proc.on('error', ...) of the condition process: sh could not be spawned
CondError(r) ==
    /\ runs[r].pc = "cond"
    /\ InstCommit(afterCondition(world, r, FALSE), "condError", r)

\* the 10 s timer of evaluateCondition fires before 'close' is delivered
CondTimeout(r) ==
    /\ runs[r].pc \in {"cond", "condExited"}
    /\ InstCommit(afterCondition(world, r, FALSE), "condTimeout", r)

\* the promise of shellSessionManager.execute resolves: with success only if
\* the command went well (ok) and the session was not terminated
CmdClose(r, ok) ==
    /\ runs[r].pc = "exec"
    /\ InstCommit(afterExecute(world, r, ok /\ ~runs[r].killed), "cmdClose", r)

\* 'plugin:installer:proceedAnyway': proceedAnyway()
ProceedAnyway ==
    IF proceedSignal = 0 THEN UNCHANGED vars
    ELSE InstCommit(resolveSignal(world), "proceedAnyway", proceedSignal)

\* 'plugin:installer:abort': abort()
Abort ==
    \E w \in {abort(world)} : InstCommit(w, "abort", proceedSignal)

\* what the processes and timers do
ProcessStep ==
    \E r \in Runs :
       \/ \E code \in {0, 1} : CondExit(r, code)
       \/ CondClose(r)
       \/ CondError(r)
       \/ CondTimeout(r)
       \/ \E ok \in BOOLEAN : CmdClose(r, ok)

(***************************************************************************)
(* Prerequisite checker: RAVEInstaller.checkPrerequisites and its cache    *)
(*                                                                         *)
(* The platform is fixed; the OS release is read when the checker is       *)
(* built, so the cache key changes only when the application is started    *)
(* again after an OS upgrade.  The probes are awaited: between the cache    *)
(* lookup and the cache write of one call the clock moves and other calls  *)
(* run.  What the probes find is the environment's choice.  The cache      *)
(* store keeps one JSON record per key (get / set / remove).               *)
(***************************************************************************)
MaxChecks == 2       \* checkPrerequisites calls in flight at a time
MaxTicks == 3        \* clock steps
NumOsVersions == 2   \* OS releases the machine goes through

Checks == 1..MaxChecks
OsVersions == 1..NumOsVersions

\* const ONE_DAY = 24 * 60 * 60 * 1000 (milliseconds)
ONE_DAY == 24 * 60 * 60 * 1000

\* the clock is read at multiples of half a day, from a time after the epoch
ClockStep == ONE_DAY \div 2

\* getJsonCache(key) finds no record
NoRecord == [present |-> FALSE, passed |-> FALSE, timestamp |-> 0]

NoReturn == [passed |-> FALSE, cached |-> FALSE]

IdleCheck == [pc |-> "idle"]

\* op: "probe" (the call went on to the probes) | "return"; at: the clock
NoPrEv == [op |-> "none", call |-> 0, forced |-> FALSE, at |-> 0,
           result |-> NoReturn]

\* getJsonCache(key)
getJsonCache(store, key) == store[key]

\* setJsonCache(key, data)
setJsonCache(store, key, data) == [store EXCEPT ![key] = data]

\* removeJsonCache(key)
removeJsonCache(store, key) == [store EXCEPT ![key] = NoRecord]

\* _getCacheKey(): the platform is fixed, the key follows the OS release
getCacheKey(os) == os

\* if (age < ONE_DAY)
youngEnough(age) == age < ONE_DAY

\* _getCachedPrerequisites(): the record, or NoRecord for null
getCachedPrerequisites(store, os, now) ==
    LET cached == getJsonCache(store, getCacheKey(os)) IN
    IF cached.present /\ cached.timestamp # 0 /\ cached.passed
       /\ youngEnough(now - cached.timestamp)
    THEN cached
    ELSE NoRecord

\* every result is cached, passed or not
shouldCacheAlways(passed) == TRUE

\* if (!result.passed) return;
shouldCache(passed) == passed

\* _cachePrerequisites(result)
cachePrerequisites(store, os, now, passed) ==
    IF shouldCache(passed)
    THEN setJsonCache(store, getCacheKey(os),
                      [present |-> TRUE, passed |-> passed, timestamp |-> now])
    ELSE store

\* the prerequisite checker is built on a machine with an empty cache
PrereqInit ==
    /\ cacheStore = [k \in OsVersions |-> NoRecord]
    /\ osVersion = 1
    /\ prNow = ClockStep
    /\ prCalls = [c \in Checks |-> IdleCheck]
    /\ prEv = NoPrEv

outsidePrereq == <<sortVars, portVars, rsessVars, shellVars, rexecVars, instVars, crashVars>>

\* checkPrerequisites(forceCheck), up to the return of a cached result or
\* the await of the platform's probes
CheckPrerequisites(c, forceCheck) ==
    /\ prCalls[c].pc = "idle"
    /\ \A j \in Checks : j < c => prCalls[j].pc # "idle"
    /\ LET cached == IF forceCheck THEN NoRecord
                     ELSE getCachedPrerequisites(cacheStore, osVersion, prNow)
       IN
       IF cached.present
       THEN /\ prEv' = [NoPrEv EXCEPT !.op = "return", !.call = c,
                                      !.forced = forceCheck, !.at = prNow,
                                      !.result = [passed |-> cached.passed,
                                                  cached |-> TRUE]]
            /\ UNCHANGED prCalls
       ELSE /\ prEv' = [NoPrEv EXCEPT !.op = "probe", !.call = c,
                                      !.forced = forceCheck, !.at = prNow]
            /\ prCalls' = [prCalls EXCEPT ![c].pc = "probing"]
    /\ UNCHANGED <<cacheStore, osVersion, prNow, outsidePrereq>>

\* the probes of call c resolve: _cachePrerequisites(result), then the
\* return with cached: false
ProbesDone(c, passed) ==
    /\ prCalls[c].pc = "probing"
    /\ cacheStore' = cachePrerequisites(cacheStore, osVersion, prNow, passed)
    /\ prCalls' = [prCalls EXCEPT ![c].pc = "idle"]
    /\ prEv' = [NoPrEv EXCEPT !.op = "return", !.call = c, !.at = prNow,
                              !.result = [passed |-> passed, cached |-> FALSE]]
    /\ UNCHANGED <<osVersion, prNow, outsidePrereq>>

\* clearCache()
ClearCache ==
    /\ cacheStore' = removeJsonCache(cacheStore, getCacheKey(osVersion))
    /\ UNCHANGED <<osVersion, prNow, prCalls, prEv, outsidePrereq>>

\* Date.now() moves on
ClockTick ==
    /\ prNow < MaxTicks * ClockStep
    /\ prNow' = prNow + ClockStep
    /\ UNCHANGED <<cacheStore, osVersion, prCalls, prEv, outsidePrereq>>

\* the application is started again after an OS upgrade: the constructor
\* reads the new os.release(); the calls of the old process are gone
OsUpgrade ==
    /\ osVersion < NumOsVersions
    /\ osVersion' = osVersion + 1
    /\ prCalls' = [c \in Checks |-> IdleCheck]
    /\ prEv' = NoPrEv
    /\ UNCHANGED <<cacheStore, prNow, outsidePrereq>>

(***************************************************************************)
(* Specifications                                                          *)
(*                                                                         *)
(* Each specification exercises one component; the components it does not  *)
(* use are not constructed.                                                *)
(***************************************************************************)
NoSort == steps = <<>> /\ sortPc = "none" /\ sortResult = <<>>

NoPorts ==
    /\ usedPorts = {} /\ availablePorts = <<>> /\ allocCalls = <<>>
    /\ held = <<>> /\ overlap = FALSE /\ reuseDue = 0 /\ lastReleased = 0
    /\ portEv = <<>>

NoRSessions == sessions = <<>>

NoShell == shSession = <<>> /\ shCmds = <<>> /\ shCallback = FALSE /\ shEv = <<>>

NoRExec ==
    /\ rxProc = "none" /\ rxOutput = <<>> /\ rxStderr = <<>> /\ rxStream = <<>>
    /\ rxData = 0 /\ rxCalls = <<>> /\ rxListeners = <<>> /\ rxNow = 0
    /\ rxEv = <<>>

NoPrereq ==
    /\ cacheStore = <<>> /\ osVersion = 0 /\ prNow = 0 /\ prCalls = <<>>
    /\ prEv = <<>>

NoCrash == lcProcs = <<>> /\ lcDialogs = {} /\ lcEv = <<>>

\* the PortManager used directly
PortNext ==
    \/ \E c \in Calls : AllocatePort(c)
    \/ \E c \in Calls : AllocatePortResume(c)
    \/ \E p \in Ports : ReleasePort(p)

PortSpecInit == PortInit /\ RSessInit /\ NoSort /\ NoShell /\ RExecInit /\ NoInstaller /\ NoPrereq /\ NoCrash

PortSpec == PortSpecInit /\ [][PortNext]_vars

\* Session ids are opaque keys the callers choose.  The ids a call is made
\* with are those registered or named by a call in flight, and one id that
\* is neither: the least, which stands for any of them.
KnownIds == (DOMAIN sessions \cup {allocCalls[c].sid : c \in Calls}) \cap SessionIds

CallerIds ==
    KnownIds \cup {x \in SessionIds \ KnownIds :
                     \A y \in SessionIds \ KnownIds : x <= y}

\* the R session manager over the PortManager
RSessNext ==
    \/ \E c \in Creates, sid \in CallerIds, rPathOk \in BOOLEAN :
          CreateSession(c, sid, rPathOk)
    \/ \E c \in Creates : CreateSessionResume(c)
    \/ \E sid \in CallerIds : TerminateSession(sid)

RSessSpecInit == PortInit /\ RSessInit /\ NoSort /\ NoShell /\ NoRExec /\ NoInstaller /\ NoPrereq /\ NoCrash

RSessSpec == RSessSpecInit /\ [][RSessNext]_vars

\* createSession calls that all name one session id, as many in flight as
\* allocatePort calls can be, and terminateSession of that id
SameIdNext ==
    \/ \E c \in Calls, rPathOk \in BOOLEAN : CreateSession(c, RxSid, rPathOk)
    \/ \E c \in Calls : CreateSessionResume(c)
    \/ TerminateSession(RxSid)

SameIdSpecInit == RSessInit /\ PortInit /\ NoSort /\ NoShell /\ RExecInit /\ NoInstaller /\ NoPrereq /\ NoCrash

SameIdSpec == SameIdSpecInit /\ [][SameIdNext]_vars

\* topologicalSort over every plan within the bounds
SortSpecInit == SortInit /\ NoPorts /\ NoRSessions /\ NoShell /\ NoRExec /\ NoInstaller /\ NoPrereq /\ NoCrash

SortSpec == SortSpecInit /\ [][SortNext]_vars

\* the shell session manager with its processes and timers
ShellNext ==
    \/ ShCreateSession
    \/ ShRegisterOutputCallback
    \/ \E manual, writeOk \in BOOLEAN : ShExecute(manual, writeOk)
    \/ \E k \in Cmds, stream \in {"stdout", "stderr"} : ShData(k, stream)
    \/ \E k \in Cmds, code \in {0, 1, -1} : ShClose(k, code)
    \/ \E k \in Cmds, closeFollows \in BOOLEAN : ShError(k, closeFollows)
    \/ \E k \in Cmds : ShTimeout(k)
    \/ \E response \in {"success", "failed", "skip"} : ShRespond(response)
    \/ ShTerminateSession

ShellSpecInit == ShellInit /\ NoPorts /\ NoRSessions /\ NoSort /\ NoRExec /\ NoInstaller /\ NoPrereq /\ NoCrash

ShellSpec == ShellSpecInit /\ [][ShellNext]_vars

\* execute on one session that createSession(RxSid, rPath, {headless: true})
\* has created on the first port
RExecNext ==
    \/ \E text \in Texts, writeOk \in BOOLEAN, now \in 1..MaxNow :
          RExecute(text, writeOk, now)
    \/ \E n \in 1..(MaxExecs * (MaxText + 3)) : RxStdoutData(n)
    \/ RxStderrData
    \/ \E k \in Execs : RxTimeout(k)
    \/ RxExit
    \/ RxTerminateSession

RExecSpecInit ==
    /\ NoSort /\ NoShell /\ NoInstaller /\ NoPrereq /\ NoCrash
    /\ usedPorts = {StartPort}
    /\ availablePorts = <<>>
    /\ allocCalls = [c \in Calls |-> IdleCall]
    /\ held = [p \in Ports |-> 0]
    /\ overlap = FALSE
    /\ reuseDue = 0
    /\ lastReleased = 0
    /\ portEv = NoPortEv
    /\ sessions = sessionsSet(<<>>, RxSid, newSession(StartPort))
    /\ rxProc = "running"
    /\ rxOutput = <<>>
    /\ rxStderr = <<>>
    /\ rxStream = <<>>
    /\ rxData = 0
    /\ rxCalls = [k \in Execs |-> UnusedExec]
    /\ rxListeners = <<>>
    /\ rxNow = 1
    /\ rxEv = NoRxEv

RExecSpec == RExecSpecInit /\ [][RExecNext]_vars

\* the same session under commands that each print one character, are
\* issued within one tick of the clock (their markers are equal) and are
\* written to stdin without an exception; stdout still arrives in chunks of
\* any size
RBriefNext ==
    \/ \E writeOk \in {TRUE} : RExecute(<<"a">>, writeOk, rxNow)
    \/ \E n \in 1..(MaxExecs * (MaxText + 3)) : RxStdoutData(n)
    \/ RxStderrData
    \/ \E k \in Execs : RxTimeout(k)
    \/ RxExit
    \/ RxTerminateSession

RBriefSpec == RExecSpecInit /\ [][RBriefNext]_vars

\* one session id under every sequence of createSession, terminateSession,
\* execute and startRAVE calls, process exits and spawn errors, and answers
\* to the crash dialogs
CrashNext ==
    \/ \E c \in Calls, headless \in BOOLEAN : LcCreateSession(c, headless)
    \/ \E c \in Calls : LcCreateResume(c)
    \/ \E p \in Procs : LcExit(p)
    \/ \E p \in Procs : LcError(p)
    \/ \E p \in Procs, restart \in BOOLEAN : LcAnswer(p, restart)
    \/ LcTerminateSession
    \/ LcExecute
    \/ LcStartRAVE

CrashSpecInit ==
    /\ CrashInit
    /\ held = <<>> /\ overlap = FALSE /\ reuseDue = 0 /\ lastReleased = 0
    /\ portEv = <<>>
    /\ NoSort /\ NoShell /\ NoRExec /\ NoInstaller /\ NoPrereq

CrashSpec == CrashSpecInit /\ [][CrashNext]_vars

\* the installer with one run at a time: start is only called when no run
\* is in flight
InstallNext ==
    \/ StartAlone
    \/ ProcessStep
    \/ ProceedAnyway
    \/ Abort

InstallSpecInit ==
    /\ checklistFile \in ChecklistFiles
    /\ checklist \in StepsIn(checklistFile, Checklists)
    /\ InstConstructed
    /\ NoSort /\ NoPorts /\ NoRSessions /\ NoShell /\ NoRExec /\ NoPrereq /\ NoCrash

InstallSpec == InstallSpecInit /\ [][InstallNext]_vars

\* the same, where every process that runs exits, 'close' events are
\* delivered and the promise of a step's command resolves; nothing is
\* assumed about what the user does
InstallFairSpec == InstallSpec /\ WF_vars(ProcessStep)

\* the installer under every sequence of start, proceedAnyway and abort,
\* over the checklists of one step
OverlapNext ==
    \/ \E r \in Runs : StartInstallation(r)
    \/ ProcessStep
    \/ ProceedAnyway
    \/ Abort

OverlapSpecInit ==
    /\ checklistFile \in ChecklistFiles
    /\ checklist \in StepsIn(checklistFile, ChecklistsOfLen(1))
    /\ InstConstructed
    /\ NoSort /\ NoPorts /\ NoRSessions /\ NoShell /\ NoRExec /\ NoPrereq /\ NoCrash

OverlapSpec == OverlapSpecInit /\ [][OverlapNext]_vars

\* the prerequisite checker under every sequence of calls, probe outcomes,
\* clock steps and OS upgrades
PrereqNext ==
    \/ \E c \in Checks, forceCheck \in BOOLEAN : CheckPrerequisites(c, forceCheck)
    \/ \E c \in Checks, passed \in BOOLEAN : ProbesDone(c, passed)
    \/ ClearCache
    \/ ClockTick
    \/ OsUpgrade

PrereqSpecInit ==
    /\ PrereqInit
    /\ NoSort /\ NoPorts /\ NoRSessions /\ NoShell /\ NoRExec /\ NoInstaller /\ NoCrash

PrereqSpec == PrereqSpecInit /\ [][PrereqNext]_vars

(***************************************************************************)
(* PortManager and createSession: properties                               *)
(***************************************************************************)
HeldOnce == \A p \in Ports : held[p] <= 1

\* C1: when each allocatePort completes before the next call begins, the
\* ports currently held by callers (returned and not released since) are
\* pairwise distinct: no port is handed out while an earlier allocation of
\* it is unreleased.
C1_SequentialDistinct == ~overlap => HeldOnce

\* every port of the range is held, the last one handed out again after a
\* release, and no call ever overlapped another
C1_Witness ==
    /\ ~overlap
    /\ \A p \in Ports : held[p] = 1
    /\ portEv.op = "allocatePort" /\ portEv.kind = "return" /\ portEv.due # 0

\* C2: when allocatePort calls overlap (a call begins while another is
\* suspended at its isPortAvailable probe), the ports they return are still
\* pairwise distinct.
C2_OverlapDistinct == overlap => HeldOnce

\* C3 as stated: after releasePort(p) of an in-use port p, the next
\* allocatePort() returns p, if no other allocatePort call came in between.
C3_NextAllocReturnsReleased ==
    (portEv.op = "allocatePort" /\ portEv.last # 0)
        => (portEv.kind = "return" /\ portEv.port = portEv.last)

\* C3 amended: after releasePort(p) of an in-use port p into an empty free
\* list, the next allocatePort() returns p, if no other allocatePort call
\* began in between (whatever was released after p).
C3_NextAllocReturnsFirstReleased ==
    (portEv.op = "allocatePort" /\ portEv.due # 0)
        => (portEv.kind = "return" /\ portEv.port = portEv.due)

\* two ports were released one after the other and the next allocatePort
\* returned the one released first
C3_Witness ==
    /\ portEv.op = "allocatePort"
    /\ portEv.due # 0 /\ portEv.last # 0 /\ portEv.last # portEv.due
    /\ portEv.kind = "return" /\ portEv.port = portEv.due

\* C4: when every port of [startPort, endPort] is in use and the free list
\* is empty, allocatePort throws 'No available ports' and leaves the in-use
\* set and the free list as they were; createSession (given an R path and a
\* fresh session id) then returns success=false with that error and
\* registers no session.
C4_ExhaustedCreateFails ==
    [][ ( /\ portEv'.op = "createSession" /\ portEv'.arg = 1
          /\ portEv'.sid \notin DOMAIN sessions
          /\ usedPorts = Ports /\ availablePorts = <<>> )
        => ( /\ portEv'.kind = "fail"
             /\ portEv'.error = "No available ports"
             /\ UNCHANGED <<usedPorts, availablePorts, sessions, allocCalls>> )
      ]_vars

\* a createSession call has failed for want of a port while sessions hold
\* the whole range
C4_Witness ==
    /\ portEv.op = "createSession" /\ portEv.error = "No available ports"
    /\ usedPorts = Ports /\ availablePorts = <<>>
    /\ {sessions[x].port : x \in DOMAIN sessions} = Ports

\* C19: terminateSession(id) of a registered id removes that session record
\* (and no other) and leaves the session's port outside the in-use set;
\* terminateSession of an absent id, such as a second call for the same id,
\* changes neither the session map nor the in-use set nor the free list.
C19_TerminateIdempotent ==
    [][ portEv'.op = "terminateSession"
        => IF portEv'.sid \in DOMAIN sessions
           THEN /\ DOMAIN sessions' = DOMAIN sessions \ {portEv'.sid}
                /\ \A x \in DOMAIN sessions' : sessions'[x] = sessions[x]
                /\ sessions[portEv'.sid].port \notin usedPorts'
                /\ usedPorts' \subseteq usedPorts
           ELSE UNCHANGED <<sessions, usedPorts, availablePorts>>
      ]_vars

\* terminateSession has just been called for an id that is no longer
\* registered, after an earlier termination had released a port
C19_Witness ==
    /\ portEv.op = "terminateSession" /\ portEv.kind = "noop"
    /\ portEv.sid \notin DOMAIN sessions
    /\ availablePorts # <<>>

\* C20: a createSession call for an id succeeds only if no session is
\* registered under that id when it succeeds (a later call for the same id
\* is rejected with 'Session already exists'), so that every port in use is
\* the port of a session record.
C20_OneCreatePerId ==
    [][ ( /\ portEv'.op \in {"createSession", "createSession-resumed"}
          /\ portEv'.kind = "success" )
        => ( /\ portEv'.sid \notin DOMAIN sessions
             /\ \A p \in usedPorts' :
                   \E x \in DOMAIN sessions' : sessions'[x].port = p )
      ]_vars

\* C35: in every reachable state of the port manager no port is both in
\* the in-use set and in the free list, the free list holds no port twice,
\* and every port in either lies within [startPort, endPort].
C35_PoolsDisjoint ==
    /\ usedPorts \cap Range(availablePorts) = {}
    /\ \A i, j \in DOMAIN availablePorts :
          availablePorts[i] = availablePorts[j] => i = j
    /\ usedPorts \cup Range(availablePorts) \subseteq Ports

(***************************************************************************)
(* ShellSessionManager: properties                                         *)
(***************************************************************************)
\* C8: execute on a session whose status is 'running' returns the failure
\* 'Session is already running a command' and changes nothing: not the
\* session's status, buffers, process handle or pending manual prompt, nor
\* the promise, process or timer of the command in flight (so that command
\* resolves as it would have without the rejected call).
C8_RunningRejectsUnchanged ==
    [][ ( /\ shEv'.op = "execute"
          /\ shSession.status = "running" )
        => ( /\ shEv'.kind = "rejected"
             /\ UNCHANGED <<shSession, shCmds, shCallback>> )
      ]_vars

\* an execute was rejected while a manual prompt was pending on the session
C8_Witness ==
    /\ shEv.op = "execute" /\ shEv.kind = "rejected"
    /\ shSession.status = "running"
    /\ shSession.prompt # 0
    /\ shCmds[shSession.prompt].state = "pending"

\* C21: terminateSession on a session with a pending manual-mode prompt
\* resolves that execute with success=false and removes the output callback,
\* so that no manual-mode execute is pending while the session does not exist.
C21_NoPromptOutlivesSession ==
    /\ shSession.status = "absent" =>
          \A k \in Cmds :
             ~(shCmds[k].mode = "manual" /\ shCmds[k].state = "pending")
    /\ shEv.op = "terminateSession" =>
          /\ ~shCallback
          /\ shEv.resolved # 0 => shEv.result.success = FALSE

\* C31: when the timeout timer of a normal-mode execute fires while the
\* call's process is still running, the process is killed, the call resolves
\* with success=false, the timeout error and the output accumulated so far,
\* and the session status is 'ready'; a promise that has resolved is not
\* resolved again by a later 'close'.
C31_TimeoutKillsAndResolvesOnce ==
    /\ [][ ( /\ shEv'.op = "timeout"
             /\ shCmds[shEv'.cmd].proc = "running" )
           => LET k == shEv'.cmd IN
              /\ shEv'.kind = "killed"
              /\ shCmds'[k].proc = "killed"
              /\ shEv'.resolved = k
              /\ shEv'.result = [success |-> FALSE, output |-> shSession.output,
                                 error |-> "Command timeout"]
              /\ shSession'.status = "ready"
         ]_vars
    /\ [][ \A k \in Cmds :
              (shCmds[k].state = "resolved" /\ shEv'.op = "close")
              => shEv'.resolved # k
         ]_vars

\* C34: a manual-mode execute resolves only through respondToCommandPrompt
\* or terminateSession, once, with success=true only for the response
\* 'success'; the session status is 'running' while its prompt is pending
\* and 'ready' after a response; respondToCommandPrompt with no pending
\* prompt changes nothing.
C34_ManualPromptProtocol ==
    /\ [] ( \A k \in Cmds :
               ( /\ shCmds[k].mode = "manual"
                 /\ shCmds[k].state = "pending"
                 /\ shCmds[k].held )
               => shSession.status = "running" )
    /\ [][ \A k \in Cmds :
              (shCmds[k].mode = "manual" /\ shEv'.resolved = k)
              => /\ shCmds[k].state = "pending"
                 /\ shEv'.op \in {"respond", "terminateSession"}
                 /\ shEv'.result.success
                      <=> (shEv'.op = "respond" /\ shEv'.kind = "success")
         ]_vars
    /\ [][ shEv'.op = "respond"
           => IF shSession.status = "absent" \/ shSession.prompt = 0
              THEN UNCHANGED <<shSession, shCmds, shCallback>>
              ELSE shSession'.status = "ready"
         ]_vars

\* command k resolved by its timeout and its process has not closed yet
TimedOut(k) ==
    /\ shCmds[k].state = "resolved"
    /\ shCmds[k].held
    /\ shCmds[k].proc \in {"running", "killed"}

\* commands other than k whose promise is unresolved on the registered session
LaterPending(k) ==
    {j \in Cmds \ {k} : shCmds[j].state = "pending" /\ shCmds[j].held}

\* C38: a 'close' or 'error' event of a command that resolved by timeout
\* leaves the session (status, process handle, buffers) and the result of a
\* later unresolved command as they were, the status being 'running', and an
\* execute issued while a command is unresolved is rejected.
C38_StaleEventsLeaveLaterCommand ==
    /\ [][ \A k \in Cmds :
              ( /\ shEv'.op \in {"close", "error"}
                /\ shEv'.cmd = k
                /\ TimedOut(k)
                /\ LaterPending(k) # {} )
              => /\ shSession' = shSession
                 /\ shSession.status = "running"
                 /\ shEv'.resolved = 0
         ]_vars
    /\ [][ ( /\ shEv'.op = "execute"
             /\ \E k \in Cmds : TimedOut(k) /\ LaterPending(k) # {} )
           => shEv'.kind = "rejected"
         ]_vars

\* C39: the timeout timer of an execute call kills only the process that
\* call spawned: when the timer of command k fires, no process of another
\* command is killed, also after command k ended with an 'error' and no
\* 'close'.
C39_TimeoutKillsOwnProcess ==
    [][ shEv'.op = "timeout"
        => \A j \in Cmds \ {shEv'.cmd} :
              shCmds[j].proc = "running" => shCmds'[j].proc = "running"
      ]_vars

(***************************************************************************)
(* RSessionManager.execute: properties                                     *)
(***************************************************************************)
PendingExecs == {k \in Execs : rxCalls[k].state = "pending"}

\* C9: an execute issued while an earlier execute on the session has not
\* resolved is refused, and it leaves the session's output buffers and the
\* earlier call (its promise, marker, listener and timer) as they were.
C9_OneExecuteInFlight ==
    [][ ( /\ rxEv'.op = "execute"
          /\ PendingExecs # {} )
        => ( /\ rxEv'.kind \in {"rejected", "not-found"}
             /\ UNCHANGED <<rxOutput, rxStderr, rxCalls, rxListeners>> )
      ]_vars

\* C10: when an execute that was alone on its session resolves through its
\* marker, the output it returns is the trimmed text the process wrote
\* before the marker, each character once, whatever chunks the text arrived
\* in, and the marker does not occur in it.
C10_OutputIsTextBeforeMarker ==
    \A k \in Execs :
        ( /\ rxCalls[k].state = "resolved"
          /\ rxCalls[k].result.success
          /\ \A j \in Execs \ {k} : rxCalls[j].state = "unused" )
        => ( /\ rxCalls[k].result.output = trim(rxCalls[k].text)
             /\ ~includes(rxCalls[k].result.output, marker(rxCalls[k].marker)) )

\* C32: when the timer of an execute fires, the call resolves with
\* success=false, the error 'Execution timeout' and the output captured so
\* far; the process is not killed, the session record (its registration and
\* status) and the port sets are left as they were.
C32_TimeoutLeavesSessionRunning ==
    [][ rxEv'.op = "timeout"
        => LET k == rxEv'.call IN
           /\ rxCalls[k].state = "pending"
           /\ rxCalls'[k].state = "resolved"
           /\ rxCalls'[k].result =
                 [success |-> FALSE, output |-> rxOutput, outputNull |-> FALSE,
                  error |-> "Execution timeout", errorText |-> <<>>]
           /\ UNCHANGED <<rxProc, sessions, usedPorts, availablePorts>>
      ]_vars

\* a call timed out with part of its output captured while the session is
\* registered and running, its process alive and its port in use
C32_Witness ==
    /\ rxEv.op = "timeout"
    /\ rxCalls[rxEv.call].result.output # <<>>
    /\ rxProc = "running"
    /\ RxSid \in DOMAIN sessions
    /\ sessions[RxSid].status = "running"
    /\ sessions[RxSid].port \in usedPorts

\* the tokens the process emits in response to call k: the characters its
\* code prints and its marker line
OwnTokens(k) ==
    {rxCalls[k].text[i] : i \in 1..Len(rxCalls[k].text)}
        \cup {marker(rxCalls[k].marker)[i] : i \in 1..2} \cup {"\n"}

\* call k resolved through a marker, and every call so far began with no
\* other call unresolved
ResolvedAlone(k) ==
    /\ rxCalls[k].state = "resolved"
    /\ rxCalls[k].result.success
    /\ \A j \in Execs : rxCalls[j].state # "unused" => rxCalls[j].alone

\* C40: the output an execute returns contains only text the process
\* emitted in response to that call, and the call is completed by its own
\* marker: when no call began while another was unresolved (an earlier
\* one may have timed out), every token of the returned output is one of the
\* call's response, and when it is the latest call its marker has been
\* delivered, so that at most the final newline is still to arrive.
C40_OutputOnlyOfOwnCall ==
    \A k \in Execs :
        ResolvedAlone(k)
        => /\ \A i \in 1..Len(rxCalls[k].result.output) :
                 rxCalls[k].result.output[i] \in OwnTokens(k)
           /\ (\A j \in Execs : j > k => rxCalls[j].state = "unused")
                 => Len(rxStream) <= 1

(***************************************************************************)
(* RSessionManager crash handling: properties                              *)
(***************************************************************************)
\* C33: once the process of a registered session record has exited, the
\* record's status is 'crashed' and stays so while the record is registered;
\* execute and startRAVE on a crashed session are refused before they write
\* to the process; the exit handler raises the crash dialog only for a
\* record that was not created headless.
C33_CrashedStaysCrashed ==
    /\ [] ( /\ RxSid \in DOMAIN sessions
               => LET s == sessions[RxSid] IN
                  /\ lcProcs[s.proc].state = "exited" => s.status = "crashed"
                  /\ ( /\ lcEv.op \in {"execute", "startRAVE"}
                       /\ s.status = "crashed" )
                     => lcEv.kind = "rejected"
            /\ (lcEv.op = "exit" /\ lcEv.dialog) => ~lcEv.headless
            /\ \A p \in lcDialogs : ~lcProcs[p].headless )
    /\ [][ ( /\ registeredProc(sessions) # 0
             /\ registeredProc(sessions') = registeredProc(sessions)
             /\ sessions[RxSid].status = "crashed" )
           => sessions'[RxSid].status = "crashed"
         ]_vars

\* execute was refused on a session that is not headless, whose process has
\* exited and whose crash dialog is on screen
C33_Witness ==
    /\ lcEv.op = "execute" /\ lcEv.kind = "rejected"
    /\ RxSid \in DOMAIN sessions
    /\ sessions[RxSid].status = "crashed"
    /\ lcProcs[sessions[RxSid].proc].state = "exited"
    /\ sessions[RxSid].proc \in lcDialogs

\* C36: whenever no createSession call is in flight, the in-use set of the
\* port manager is the set of the ports of the registered session records.
C36_PortsAreSessionsPorts ==
    (\A c \in Calls : allocCalls[c].pc = "idle")
    => usedPorts = {sessions[x].port : x \in DOMAIN sessions}

\* C37: the exit of a process that terminateSession killed raises no crash
\* dialog for a session registered later under the id, and the answer to a
\* dialog terminates (and restarts) only the record of the process whose
\* exit raised it.
C37_CrashHandlingOwnSession ==
    /\ (lcEv.op = "exit" /\ lcEv.kind = "killed" /\ lcEv.dialog)
       => lcEv.registered = lcEv.proc
    /\ (lcEv.op = "answer" /\ lcEv.registered # 0) => lcEv.registered = lcEv.proc

(***************************************************************************)
(* RAVEInstaller.executeInstallation: properties                           *)
(***************************************************************************)
\* run r has emitted the progress event `type` for step id
Emitted(r, type, id) ==
    \E k \in 1..Len(runs[r].log) : runs[r].log[k] = [type |-> type, step |-> id]

EmittedNext(r, type, id) ==
    \E k \in 1..Len(runs'[r].log) : runs'[r].log[k] = [type |-> type, step |-> id]

\* the status of the step with this id among the steps run r has processed
\* ("none": not processed)
FinalStatus(r, id) == executedMapGet(world, runs[r].executed, id)

\* some need of the step is neither 'success' nor 'skipped' for run r
NeedsUnmet(r, id) ==
    \E d \in Range(stepOf(id).needs) :
        FinalStatus(r, d) \notin {"success", "skipped"}

NeedsUnmetNext(r, id) ==
    \E d \in Range(stepOf(id).needs) :
        executedMapGet(world', runs'[r].executed, d) \notin {"success", "skipped"}

\* C11 (as amended): a step whose skip condition is seen by the 'close'
\* handler to exit with code 0, before the 10 s timer of the condition check
\* fires, ends with status 'skipped' and a step-skipped event; no step-start
\* event is emitted for it and its command is never executed, whatever the
\* status of its needs.
C11_ClosedZeroSkipped ==
    \A r \in Runs : \A id \in runs[r].closed0 :
        /\ FinalStatus(r, id) = "skipped"
        /\ Emitted(r, "step-skipped", id)
        /\ ~Emitted(r, "step-start", id)
        /\ ~(runs[r].pc = "exec" /\ runs[r].cur[2] = id)

\* a run has skipped, on its condition, a step that has an unmet need, and
\* has gone on to the end
C11_Witness ==
    \E r \in Runs : \E id \in runs[r].closed0 :
        /\ NeedsUnmet(r, id)
        /\ stepOf(id).required
        /\ runs[r].pc = "done"

\* C11 (as stated): once the condition process of a step has exited with
\* code 0, the step leaves the condition check with status 'skipped' and a
\* step-skipped event, and no step-start event is emitted for it.
C11_ExitZeroSkipped ==
    [][ \A r \in Runs :
          ( /\ runs[r].pc = "condExited" /\ runs[r].code = 0
            /\ runs'[r].pc # "condExited" )
          => LET step == runs[r].cur IN
             /\ stepStatus'[step[1]][step[2]] = "skipped"
             /\ EmittedNext(r, "step-skipped", step[2])
             /\ ~EmittedNext(r, "step-start", step[2])
      ]_vars

\* the run stands at a required step that is blocked exactly when some need
\* of the step is neither 'success' nor 'skipped': it has then emitted
\* step-blocked last and waits for the proceed signal; a step whose command
\* was started has all its needs met
C12_Suspends ==
    \A r \in Runs :
        LET step == runs[r].cur
            id == step[2]
        IN  /\ runs[r].pc = "waitBlocked"
                 => /\ stepOf(id).required
                    /\ NeedsUnmet(r, id)
                    /\ statusOf(world, step) = "blocked"
                    /\ runs[r].log[Len(runs[r].log)]
                          = [type |-> "step-blocked", step |-> id]
                    /\ proceedSignal = r
            /\ runs[r].pc \in {"exec", "waitFailed"} => ~NeedsUnmet(r, id)

\* proceedAnyway() on a run suspended at a blocked step, in a run that was
\* not aborted, marks the step 'skipped' and moves the run on; the next step, if its needs are met and it
\* has no condition to check first, is started at once
C12_ProceedSkips ==
    \A r \in Runs :
        ( /\ runs[r].pc = "waitBlocked" /\ proceedSignal = r /\ ~aborted
          /\ instEv'.op = "proceedAnyway" )
        => LET step == runs[r].cur
               j == runs[r].i + 1
           IN  /\ stepStatus'[step[1]][step[2]] = "skipped"
               /\ EmittedNext(r, "step-skipped", step[2])
               /\ runs'[r].i > runs[r].i
               /\ IF j > Len(sortedIds) THEN runs'[r].pc = "done"
                  ELSE ( /\ ~stepOf(sortedIds[j]).if
                         /\ ~NeedsUnmetNext(r, sortedIds[j]) )
                       => /\ runs'[r].pc = "exec"
                          /\ runs'[r].cur[2] = sortedIds[j]
                          /\ EmittedNext(r, "step-start", sortedIds[j])

\* a run that ends without an abort has processed every step, and has
\* started every step whose needs were met and whose condition did not
\* skip it
C12_LaterStepsRun ==
    \A r \in Runs :
        (runs[r].pc = "done" /\ runs[r].result.emitted /\ ~runs[r].result.aborted)
        => \A id \in Range(sortedIds) :
              /\ FinalStatus(r, id) # "none"
              /\ (id \notin runs[r].closed0 /\ ~NeedsUnmet(r, id))
                    => Emitted(r, "step-start", id)

C16_AbortWhileSuspended ==
    [][ \A r \in Runs :
          ( /\ runs[r].pc \in {"waitBlocked", "waitFailed"} /\ proceedSignal = r
            /\ instEv'.op = "abort" )
          => LET step == runs[r].cur IN
             /\ runs'[r].pc = "done"
             /\ stepStatus'[step[1]][step[2]] = stepStatus[step[1]][step[2]]
             /\ stepStatus[step[1]][step[2]] \in {"blocked", "failed"}
             /\ runs'[r].log = Append(runs[r].log,
                                  [type |-> "installation-complete", step |-> 0])
             /\ runs'[r].executed = runs[r].executed
             /\ runs'[r].result.returned /\ runs'[r].result.emitted
             /\ runs'[r].result.aborted /\ ~runs'[r].result.success
             /\ proceedSignal' = 0
      ]_vars

\* abort() has just ended a run that was suspended at a blocked required
\* step, with steps of the checklist still to come
C16_Witness ==
    /\ instEv.op = "abort"
    /\ \E r \in Runs :
          /\ instEv.run = r
          /\ runs[r].pc = "done" /\ runs[r].result.aborted
          /\ statusOf(world, runs[r].cur) = "blocked"
          /\ runs[r].i < Len(sortedIds)

\* the steps run r has processed whose final status is st
StepsWithStatus(r, st) == {id \in Range(sortedIds) : FinalStatus(r, id) = st}

\* C13: at the end of a run the reported counters match the final step
\* statuses: `failed` is the number of steps whose final status is 'failed',
\* `skipped` the number whose final status is 'skipped', `completed` the
\* number whose final status is 'success'.
C13_CountersMatchStatuses ==
    \A r \in Runs :
        (runs[r].pc = "done" /\ runs[r].result.emitted)
        => /\ runs[r].result.failed = Cardinality(StepsWithStatus(r, "failed"))
           /\ runs[r].result.skipped = Cardinality(StepsWithStatus(r, "skipped"))
           /\ runs[r].result.completed = Cardinality(StepsWithStatus(r, "success"))

\* C14: a run that reaches installation-complete reports success=true if and
\* only if no step's final status is 'failed' and abort() was not called
\* during the run.
C14_SuccessIffNoFailedNoAbort ==
    \A r \in Runs :
        (runs[r].pc = "done" /\ runs[r].result.emitted)
        => ( runs[r].result.success
             <=> (StepsWithStatus(r, "failed") = {} /\ ~runs[r].result.aborted) )

\* C15: an optional step whose command has failed (step-failed emitted) has
\* status 'skipped', and the run is not waiting for proceedAnyway() at it.
C15_OptionalFailureSkipped ==
    \A r \in Runs : \A id \in Range(sortedIds) :
        (~stepOf(id).required /\ Emitted(r, "step-failed", id))
        => /\ FinalStatus(r, id) = "skipped"
           /\ ~(runs[r].pc = "waitFailed" /\ runs[r].cur[2] = id)

\* C17: once abort() has been called in a run, the run finishes, given that
\* every process exits, is closed and every command's promise resolves, and
\* whatever the user does or does not do afterwards.
C17_AbortedRunFinishes ==
    (aborted /\ \E r \in Runs : Live(r)) ~> (\A r \in Runs : ~Live(r))

\* C18: at most one step command is executing at any instant.
C18_OneCommandAtATime ==
    Cardinality({r \in Runs : runs[r].pc = "exec"}) <= 1

\* C24: if loadChecklist fails (the file has no steps array, or a step lacks
\* id, name or type) or topologicalSort reports failure, executeInstallation
\* emits exactly one event, an 'error', creates no shell session and returns
\* success=false.
C24_LoadOrSortFailureOnlyError ==
    ( /\ instEv.op = "start"
      /\ \/ ~checklistFile.hasSteps
         \/ ~checklistFile.stepsValid
         \/ ~topologicalSort(checklist).success )
    => LET run == runs[instEv.run] IN
       /\ run.log = <<[type |-> "error", step |-> 0]>>
       /\ run.sessions = 0
       /\ run.pc = "done"
       /\ run.result.returned
       /\ ~run.result.success

\* a run was started on a well-formed checklist of two steps that need each
\* other, and has returned
C24_Witness ==
    /\ instEv.op = "start"
    /\ checklistFile.stepsValid
    /\ Len(checklist) = 2
    /\ checklist[1].needs = <<2>> /\ checklist[2].needs = <<1>>
    /\ runs[instEv.run].result.returned
    /\ runs[instEv.run].log = <<[type |-> "error", step |-> 0]>>

\* C25 (as amended): a step's main command is started only if the 'close'
\* handler of its skip condition has not seen exit code 0 and every id in
\* its needs has status 'success' or 'skipped' among the steps the run has
\* processed.
C25_StartedOnlyUnskippedNeedsMet ==
    \A r \in Runs :
        runs[r].pc = "exec"
        => LET id == runs[r].cur[2] IN
           /\ runs[r].log[Len(runs[r].log)] = [type |-> "step-start", step |-> id]
           /\ id \notin runs[r].closed0
           /\ \A d \in Range(stepOf(id).needs) :
                 FinalStatus(r, d) \in {"success", "skipped"}

\* the command of a step with a condition and a need is running: the
\* condition exited with code 1 and the needed step was skipped or succeeded
C25_Witness ==
    \E r \in Runs :
        /\ runs[r].pc = "exec"
        /\ stepOf(runs[r].cur[2]).if
        /\ runs[r].code = 1
        /\ stepOf(runs[r].cur[2]).needs # <<>>

\* C25: a step's main command is started only if its skip condition did not
\* exit 0 and every id in its needs has status 'success' or 'skipped' among
\* the steps already processed in the run.
C25_StartedOnlyIfNotExitedZero ==
    [][ \A r \in Runs :
          ( runs'[r].pc = "exec" /\ runs[r].pc # "exec" )
          => /\ ~( /\ runs[r].pc = "condExited"
                   /\ runs[r].code = 0
                   /\ runs'[r].cur = runs[r].cur )
             /\ \A d \in Range(stepOf(runs'[r].cur[2]).needs) :
                   executedMapGet(world', runs'[r].executed, d)
                      \in {"success", "skipped"}
      ]_vars

\* C26: a step whose needs are each either absent from the plan or in status
\* 'success' or 'skipped' is executed rather than marked blocked: only a need
\* that names a step of the plan whose status is neither blocks a step.
C26_AbsentNeedDoesNotBlock ==
    \A r \in Runs : \A id \in Range(sortedIds) :
        Emitted(r, "step-blocked", id)
        => \E d \in Range(stepOf(id).needs) :
              /\ stepsMapHas(checklist, d)
              /\ FinalStatus(r, d) \notin {"success", "skipped"}

\* the events after which a run waits for the proceed signal
SuspendsAt(e) ==
    \/ e.type = "step-requires-action"
    \/ e.type = "step-blocked" /\ stepOf(e.step).required

\* the events of run r after which it waited, or waits, for the signal
Suspensions(r) == {k \in 1..Len(runs[r].log) : SuspendsAt(runs[r].log[k])}

\* C27: while a run is suspended on a blocked or failed required step it
\* emits no event (no step-start in particular) and creates no shell
\* session until proceedAnyway() or abort() is called: the run stays as it
\* is under every other step, and it has gone on from a suspension only as
\* often as one of the two has resolved its signal.
C27_SuspendedUntilProceedOrAbort ==
    /\ [](\A r \in Runs :
            /\ Cardinality(Suspensions(r)) =
                  runs[r].resumed
                  + (IF runs[r].pc \in {"waitBlocked", "waitFailed"} THEN 1 ELSE 0)
            /\ runs[r].pc \in {"waitBlocked", "waitFailed"}
                  => /\ runs[r].sessions = 0
                     /\ SuspendsAt(runs[r].log[Len(runs[r].log)]))
    /\ [][ \A r \in Runs :
            runs[r].pc \in {"waitBlocked", "waitFailed"}
               => \/ instEv'.op \in {"proceedAnyway", "abort"}
                  \/ runs'[r] = runs[r]
         ]_vars

\* proceedAnyway() has moved a run past a failed required step, and the run
\* has started the next step's command
C27_Witness ==
    /\ instEv.op = "proceedAnyway"
    /\ \E r \in Runs :
          /\ runs[r].pc = "exec"
          /\ runs[r].sessions = 1
          /\ \E k \in 1..(Len(runs[r].log) - 1) :
                /\ runs[r].log[k].type = "step-requires-action"
                /\ runs[r].log[k + 1].type = "step-start"

\* C28: once abort() has been called during a run, that run starts no
\* further step command: no step-start event and no shell session creation
\* follows the abort.
C28_NoStepStartsAfterAbort ==
    [][ \A r \in Runs :
          ( aborted /\ Live(r) )
          => /\ ~( runs'[r].pc = "exec" /\ runs[r].pc # "exec" )
             /\ runs'[r].sessions <= runs[r].sessions
      ]_vars

FreshPassedRecord ==
    LET rec == cacheStore[osVersion] IN
    /\ rec.present
    /\ rec.passed
    /\ prNow - rec.timestamp < ONE_DAY

\* the step is the first part of a checkPrerequisites call
CallBegins ==
    /\ prEv' # prEv
    /\ \/ prEv'.op = "probe"
       \/ prEv'.op = "return" /\ prEv'.result.cached

\* C22: a result with passed=false is never written to the cache, and
\* checkPrerequisites returns a cached result only when it was not forced
\* and the record under the current platform+OS-release key has passed=true
\* and is younger than 24 hours; in every other case it runs the probes.
C22_OnlyFreshPassedIsReused ==
    [][ /\ \A k \in OsVersions :
              ( cacheStore'[k] # cacheStore[k] /\ cacheStore'[k].present )
                 => cacheStore'[k].passed
        /\ CallBegins =>
              IF ~prEv'.forced /\ FreshPassedRecord
              THEN /\ prEv'.op = "return"
                   /\ prEv'.result = [passed |-> TRUE, cached |-> TRUE]
              ELSE /\ prEv'.op = "probe"
                   /\ prCalls'[prEv'.call].pc = "probing"
      ]_vars

\* a call that was not forced found a passed record of the current key
\* that is a day old, and went on to the probes
C22_Witness ==
    /\ prEv.op = "probe" /\ ~prEv.forced /\ prEv.at = prNow
    /\ cacheStore[osVersion].present
    /\ cacheStore[osVersion].passed
    /\ prNow - cacheStore[osVersion].timestamp = ONE_DAY

\* C23: after a checkPrerequisites call has returned passed=false, the next
\* call runs the probes and does not return cached=true.
C23_FailedIsRechecked ==
    [][ ( /\ prEv.op = "return"
          /\ ~prEv.result.passed
          /\ CallBegins )
        => ( /\ prEv'.op = "probe"
             /\ ~prEv'.result.cached )
      ]_vars

(***************************************************************************)
(* The 'needs' graph of a plan                                             *)
(***************************************************************************)
PresentIds(ss) == {ss[i].id : i \in DOMAIN ss}

UniqueIds(ss) == \A i, j \in DOMAIN ss : ss[i].id = ss[j].id => i = j

NeedsOf(ss, id) == IF stepsMapHas(ss, id) THEN Range(stepsMapGet(ss, id).needs) ELSE {}

RECURSIVE NeedsClosure(_, _)
NeedsClosure(ss, S) ==
    LET N == S \cup UNION {NeedsOf(ss, x) : x \in S} IN
    IF N = S THEN S ELSE NeedsClosure(ss, N)

\* the ids a step needs, directly or through other steps
TransitiveNeeds(ss, id) == NeedsClosure(ss, NeedsOf(ss, id))

\* the steps that transitively need themselves
OnCycle(ss) == {id \in PresentIds(ss) : id \in TransitiveNeeds(ss, id)}

HasCycle(ss) == OnCycle(ss) # {}

AbsentNeeds(ss) == (UNION {Range(ss[i].needs) : i \in DOMAIN ss}) \ PresentIds(ss)

IsPermutationOf(out, ss) ==
    /\ Len(out) = Len(ss)
    /\ \A i \in DOMAIN ss : Cardinality({j \in DOMAIN out : out[j] = ss[i]}) = 1

NeedsFirst(out) ==
    \A i \in DOMAIN out : \A d \in Range(out[i].needs) :
        \E j \in 1..(i - 1) : out[j].id = d

\* C5: for a step list with unique ids whose 'needs' graph is acyclic and
\* references only present steps, topologicalSort succeeds and returns a
\* permutation of the input in which every step comes after all the steps it
\* needs.
C5_AcyclicSorted ==
    (sortPc = "sorted" /\ UniqueIds(steps) /\ ~HasCycle(steps) /\ AbsentNeeds(steps) = {})
        => /\ sortResult.success
           /\ sortResult.error = 0
           /\ IsPermutationOf(sortResult.sorted, steps)
           /\ NeedsFirst(sortResult.sorted)

\* a three-step chain declared against its dependency order has been sorted
C5_Witness ==
    /\ sortPc = "sorted"
    /\ Len(steps) = 3
    /\ steps[1].needs = <<2>> /\ steps[2].needs = <<3>> /\ steps[3].needs = <<>>
    /\ sortResult.success
    /\ [i \in 1..3 |-> sortResult.sorted[i].id] = <<3, 2, 1>>

\* C6: for a step list whose 'needs' graph contains a cycle, topologicalSort
\* returns success=false with an empty sorted list and an error that names a
\* step lying on a cycle (a step that transitively needs itself).
C6_CycleErrorNamesCycleStep ==
    (sortPc = "sorted" /\ HasCycle(steps))
        => /\ ~sortResult.success
           /\ sortResult.sorted = <<>>
           /\ sortResult.error \in OnCycle(steps)

\* C7: a plan in which steps list a 'needs' id that is absent from the plan,
\* and whose dependencies among present steps are acyclic, sorts
\* successfully, however many steps reference the same absent id.
C7_AbsentNeedsSortOk ==
    (sortPc = "sorted" /\ AbsentNeeds(steps) # {} /\ ~HasCycle(steps))
        => (sortResult.success /\ sortResult.error = 0)

\* neither step transitively needs the other
Unrelated(ss, a, b) ==
    /\ a \notin TransitiveNeeds(ss, b)
    /\ b \notin TransitiveNeeds(ss, a)

\* where the step with this id stands in the output
PosOf(out, id) == CHOOSE k \in DOMAIN out : out[k].id = id

\* some step declared before the j-th transitively needs it
NeededByEarlier(ss, j) ==
    \E i \in 1..(j - 1) : ss[j].id \in TransitiveNeeds(ss, ss[i].id)

\* every step's needs are declared before it
InDependencyOrder(ss) ==
    \A i \in DOMAIN ss : \A d \in Range(ss[i].needs) :
        \E j \in 1..(i - 1) : ss[j].id = d

\* C29 (as amended): two steps with no dependency relation between them
\* appear in the sorted output in their declaration order when no step
\* declared before the later one transitively needs it; a plan already
\* declared in dependency order is returned unchanged.
C29_DeclarationOrderKept ==
    (sortPc = "sorted" /\ sortResult.success)
    => /\ \A i, j \in DOMAIN steps :
            ( /\ i < j
              /\ Unrelated(steps, steps[i].id, steps[j].id)
              /\ ~NeededByEarlier(steps, j) )
            => PosOf(sortResult.sorted, steps[i].id)
                  < PosOf(sortResult.sorted, steps[j].id)
       /\ InDependencyOrder(steps) => sortResult.sorted = steps

\* the plan 1 (needs 3), 2, 3 has been sorted to 3, 1, 2: the unrelated
\* steps 1 and 2 keep their order, step 3 is moved before both
C29_Witness ==
    /\ sortPc = "sorted"
    /\ sortResult.success
    /\ Len(steps) = 3
    /\ steps[1].needs = <<3>> /\ steps[2].needs = <<>> /\ steps[3].needs = <<>>
    /\ [i \in 1..3 |-> sortResult.sorted[i].id] = <<3, 1, 2>>

\* C29: steps with no dependency relation between them appear in the sorted
\* output in their original declaration order; in particular a plan already
\* declared in dependency order is returned unchanged.
C29_UnrelatedKeepDeclarationOrder ==
    (sortPc = "sorted" /\ sortResult.success)
    => /\ \A i, j \in DOMAIN steps :
            ( i < j /\ Unrelated(steps, steps[i].id, steps[j].id) )
            => PosOf(sortResult.sorted, steps[i].id)
                  < PosOf(sortResult.sorted, steps[j].id)
       /\ InDependencyOrder(steps) => sortResult.sorted = steps

====
